---- MODULE Spec2Model ----
(***************************************************************************)
(* A model of the file-based B-tree of BTreeLib/BTree.h: one BTree object  *)
(* (its fields), the index file it works on (a sequence of node blocks,    *)
(* slot n at byte offset n * sizeof(Node)) and the public operations       *)
(* open, close, insert and retrieve, with the private helpers they call.   *)
(***************************************************************************)
EXTENDS Integers, Sequences, FiniteSets, TLC

\* ------------------------------------------------------------------------
\* Template parameters and compile-time geometry (BTree.h 42-58)
\* ------------------------------------------------------------------------

\* KeySize bytes per key field: KeySize - 1 significant bytes and a terminator.
KeySize == 3
\* DataSize bytes per payload; the payload is modelled as one value.
DataSize == 1
SizeofInt == 4
SizeofLong == 8
NilPtr == -1

\* The NodeSize template argument is drawn from NodeSizes at construction:
\* 28 gives Order 3 (odd), 40 gives Order 4 (even), 52 gives Order 5.
NodeSizes == {28, 40}

BulkNodeSizes == {28, 40, 52}

\* ------------------------------------------------------------------------
\* Bounds of the model
\* ------------------------------------------------------------------------

\* The bytes the bulk-load program makes its keys of (all non-zero: a C string).
BulkChars == {1, 2}
\* The payload values callers pass.
Payloads == {1, 2}
\* A write session performs at most MaxInserts successful inserts.
MaxInserts == 4
\* retrieve's descent is followed for at most MaxDescent node reads.
MaxDescent == 8
\* The bulk-load program performs at most MaxBulkInserts successful inserts.
MaxBulkInserts == 7

VARIABLES
    NodeSize,       \* template argument NodeSize of this instantiation
    disk,           \* the index file: NoFile or its sequence of node blocks
    file_,          \* std::fstream file_: [open, out, fail]
    mode_,          \* BTreeMode mode_
    isOpen_,        \* bool isOpen_
    root_,          \* long root_
    numItems_,      \* long numItems_
    numNodes_,      \* long numNodes_
    currentNode_,   \* Node currentNode_ (working buffer)
    lastOp,         \* the last public call and what it returned or raised
    inserted,       \* history: normalized key -> payload of the successful inserts into the file
    nSucc,          \* history: number of successful inserts since open(path, Write)
    atClose,        \* history: size(), empty(), root_, numNodes_ just before the close that left the file
    that,           \* a second BTree object, the *this of a move from the first
    thatDisk,       \* the index file at the path the second object opens
    config,         \* an instantiation BTree<KeySize, DataSize, NodeSize> and its geometry
    index,          \* a ProductIndex object: buffer_, indexFile_, recordCount_, isOpen_
    indexFile,      \* the file at the path of the ProductIndex: NoFile or header, records
    indexLog        \* history: the records added, those of the file, the last call

vars == <<NodeSize, disk, file_, mode_, isOpen_, root_, numItems_, numNodes_,
          currentNode_, lastOp, inserted, nSucc, atClose, that, thatDisk, config,
          index, indexFile, indexLog>>

\* What a program that uses BTree objects only leaves alone.
apart == <<config, index, indexFile, indexLog>>

\* What a program with one object of one instantiation leaves alone.
aside == <<that, thatDisk, apart>>

\* ------------------------------------------------------------------------
\* Geometry
\* ------------------------------------------------------------------------

RecordSize == KeySize + DataSize

OrderCalc(N) == (N - SizeofInt + RecordSize + SizeofLong) \div (RecordSize + SizeofLong)

OrderOf(N) == IF OrderCalc(N) < 3 THEN 3 ELSE OrderCalc(N)

Order == OrderOf(NodeSize)

MaxKeys == Order - 1

MinKeys == (Order - 1) \div 2

\* ------------------------------------------------------------------------
\* Keys, records, nodes
\* ------------------------------------------------------------------------

Min(a, b) == IF a < b THEN a ELSE b

\* Every key of at most n bytes drawn from chars.
RECURSIVE KeysUpTo(_, _)
KeysUpTo(chars, n) ==
    IF n = 0 THEN {<< >>}
    ELSE LET S == KeysUpTo(chars, n - 1)
         IN S \cup {Append(s, c) : s \in {t \in S : Len(t) = n - 1}, c \in chars}

\* The keys callers pass: shorter than, as long as and longer than the
\* KeySize - 1 bytes a key field keeps, some of them equal on those bytes.
InputKeys == {<< >>, <<1>>, <<2>>, <<1, 1>>, <<1, 2>>, <<1, 1, 1>>, <<1, 1, 2>>}

\* strncpy with the bound KeySize in place of KeySize - 1.
strncpy_wholeField(key) == SubSeq(key, 1, Min(Len(key), KeySize))

\* std::strncpy(dst, key, KeySize - 1) into a zero-filled char[KeySize].
strncpy(key) == SubSeq(key, 1, Min(Len(key), KeySize - 1))

\* std::strcmp on unsigned bytes: negative, zero or positive.  The first
\* position at which the strings differ decides; a string that ends there
\* (its terminator) is the lesser.
strcmp(a, b) ==
    LET Differ == {i \in 1..Min(Len(a), Len(b)) : a[i] # b[i]}
        At(i) == IF a[i] < b[i] THEN -1 ELSE 1
    IN IF Differ # {} THEN At(CHOOSE i \in Differ : \A j \in Differ : i <= j)
       ELSE IF Len(a) < Len(b) THEN -1
       ELSE IF Len(a) > Len(b) THEN 1
       ELSE 0

\* The key a caller's key stands for: its first KeySize - 1 bytes.
Normalized(key) == IF Len(key) > KeySize - 1 THEN SubSeq(key, 1, KeySize - 1) ELSE key

\* Record(): key and data zero-filled.
Record == [key |-> << >>, data |-> 0]

\* Node(): count 0, zeroed records, every branch NilPtr.
Node ==
    [count |-> 0,
     records |-> [i \in 0..(MaxKeys - 1) |-> Record],
     branches |-> [i \in 0..(Order - 1) |-> NilPtr]]

\* The state of a path at which there is no file (not a sequence of blocks).
NoFile == <<[absent |-> TRUE]>>

\* A block of zero bytes (a hole left by a write past the end of the file).
ZeroBlock ==
    [count |-> 0,
     records |-> [i \in 0..(MaxKeys - 1) |-> Record],
     branches |-> [i \in 0..(Order - 1) |-> 0]]

\* ------------------------------------------------------------------------
\* The pager.  A private helper works on m = [disk, file, cur, numNodes]:
\* the file's blocks, the stream file_, the working buffer currentNode_ and
\* numNodes_, the fields the insert recursion reads and writes.
\* ------------------------------------------------------------------------

\* The file with block b stored at slot n (bytes between the old end of the
\* file and slot n read as zero).
RECURSIVE PutBlock(_, _, _)
PutBlock(blocks, n, b) ==
    IF n < Len(blocks) THEN [blocks EXCEPT ![n + 1] = b]
    ELSE IF n = Len(blocks) THEN Append(blocks, b)
    ELSE PutBlock(Append(blocks, ZeroBlock), n, b)

\* readNode(nodeNum, currentNode_): seekg + read of one block.  A stream that
\* already failed, a negative offset or a read past the end of the file sets
\* failbit and leaves the buffer as it was.
readNode(m, nodeNum) ==
    IF m.file.open /\ ~m.file.fail /\ nodeNum >= 0 /\ nodeNum < Len(m.disk)
    THEN [m EXCEPT !.cur = m.disk[nodeNum + 1]]
    ELSE [m EXCEPT !.file.fail = TRUE]

\* writeNode(nodeNum, node): seekp + write of one block.
writeNode(m, nodeNum, node) ==
    IF m.file.open /\ m.file.out /\ ~m.file.fail /\ nodeNum >= 0
    THEN [m EXCEPT !.disk = PutBlock(m.disk, nodeNum, node)]
    ELSE [m EXCEPT !.file.fail = TRUE]

\* metaNode with numItems_ and numNodes_ in each other's slot.
metaNode_swapped(items, nodes, root) ==
    [Node EXCEPT !.branches[0] = nodes, !.branches[1] = items, !.branches[2] = root]

\* writeMetadata(): a fresh Node with branches 0..2 = numItems_, numNodes_, root_.
metaNode(items, nodes, root) ==
    [Node EXCEPT !.branches[0] = items, !.branches[1] = nodes, !.branches[2] = root]

writeMetadata(m, items, root) ==
    writeNode(m, 0, metaNode(items, m.numNodes, root))

\* ------------------------------------------------------------------------
\* searchNode, addRecord, split, pushDown
\* ------------------------------------------------------------------------

\* The right-to-left scan of searchNode: from location, step down while
\* location > 0 and target < records[location].key.
RECURSIVE scanLeft(_, _, _)
scanLeft(node, target, location) ==
    IF location > 0 /\ strcmp(target, node.records[location].key) < 0
    THEN scanLeft(node, target, location - 1)
    ELSE location

\* searchNode with <= in place of < in the test against records[0].
searchNode_skipFirst(node, target) ==
    IF node.count = 0 THEN [found |-> FALSE, location |-> -1]
    ELSE IF strcmp(target, node.records[0].key) <= 0 THEN [found |-> FALSE, location |-> -1]
    ELSE LET location == scanLeft(node, target, node.count - 1)
         IN [found |-> strcmp(target, node.records[location].key) = 0,
             location |-> location]

\* searchNode(target, location) on the working buffer.
searchNode(node, target) ==
    IF node.count = 0 THEN [found |-> FALSE, location |-> -1]
    ELSE IF strcmp(target, node.records[0].key) < 0 THEN [found |-> FALSE, location |-> -1]
    ELSE LET location == scanLeft(node, target, node.count - 1)
         IN [found |-> strcmp(target, node.records[location].key) = 0,
             location |-> location]

\* The shifting loop of addRecord: for (j = node.count; j > location; j--).
RECURSIVE shiftRight(_, _, _)
shiftRight(node, j, location) ==
    IF j > location
    THEN shiftRight([node EXCEPT !.records[j] = node.records[j - 1],
                                 !.branches[j + 1] = node.branches[j]],
                    j - 1, location)
    ELSE node

\* addRecord whose loop stops one slot early (j > location + 1).
addRecord_shortShift(record, rightBranch, node, location) ==
    LET shifted == shiftRight(node, node.count, location + 1)
    IN [shifted EXCEPT !.records[location] = record,
                       !.branches[location + 1] = rightBranch,
                       !.count = node.count + 1]

\* addRecord without the loop that makes room.
addRecord_noShift(record, rightBranch, node, location) ==
    [node EXCEPT !.records[location] = record,
                 !.branches[location + 1] = rightBranch,
                 !.count = node.count + 1]

\* addRecord(record, rightBranch, node, location).
addRecord(record, rightBranch, node, location) ==
    LET shifted == shiftRight(node, node.count, location)
    IN [shifted EXCEPT !.records[location] = record,
                       !.branches[location + 1] = rightBranch,
                       !.count = node.count + 1]

\* The loop of split that moves the upper half to the right node:
\* for (j = median; j < MaxKeys; j++).
RECURSIVE moveUpper(_, _, _, _)
moveUpper(left, rightNode, j, median) ==
    IF j < MaxKeys
    THEN moveUpper(left,
                   [rightNode EXCEPT !.records[j - median] = left.records[j],
                                     !.branches[j - median + 1] = left.branches[j + 1]],
                   j + 1, median)
    ELSE rightNode

\* writeNode(nodeNum, currentNode_) after the working buffer was given node.
writeBack(m, nodeNum, node) == writeNode([m EXCEPT !.cur = node], nodeNum, node)

\* split without rightNode.branches[0] = currentNode_.branches[currentNode_.count].
splitAt_noBranch0(m, currentRecord, currentRight, currentRoot, location, median) ==
    LET Halved(cur) ==
            [left |-> [cur EXCEPT !.count = median],
             right |-> [moveUpper(cur, Node, median, median) EXCEPT !.count = MaxKeys - median]]
        Added(h) ==
            IF location < MinKeys
            THEN [h EXCEPT !.left = addRecord(currentRecord, currentRight, h.left,
                                              location + 1)]
            ELSE [h EXCEPT !.right = addRecord(currentRecord, currentRight, h.right,
                                               location - median + 1)]
        Promoted(h) ==
            [newRecord |-> h.left.records[h.left.count - 1],
             left |-> [h.left EXCEPT !.count = h.left.count - 1],
             right |-> h.right]
        Written(m3, p) ==
            [m |-> writeNode(m3, m3.numNodes, p.right), moveUp |-> TRUE,
             newRecord |-> p.newRecord, newRight |-> m3.numNodes, thrown |-> FALSE,
             overflow |-> FALSE]
        Stored(m1, p) ==
            Written([writeBack(m1, currentRoot, p.left) EXCEPT !.numNodes = @ + 1], p)
        Read(m1) == Stored(m1, Promoted(Added(Halved(m1.cur))))
    IN Read(readNode(m, currentRoot))

\* The body of split once median is chosen.  Halved: the upper half moved to a
\* fresh right node; Added: the incoming record put into its half; Promoted:
\* the last record of the left half taken out as newRecord, its right branch
\* becoming branch 0 of the right node; Stored: left written at currentRoot,
\* numNodes_++; Written: right written at the new node number.
splitAt(m, currentRecord, currentRight, currentRoot, location, median) ==
    LET Halved(cur) ==
            [left |-> [cur EXCEPT !.count = median],
             right |-> [moveUpper(cur, Node, median, median) EXCEPT !.count = MaxKeys - median]]
        Added(h) ==
            IF location < MinKeys
            THEN [h EXCEPT !.left = addRecord(currentRecord, currentRight, h.left,
                                              location + 1)]
            ELSE [h EXCEPT !.right = addRecord(currentRecord, currentRight, h.right,
                                               location - median + 1)]
        Promoted(h) ==
            [newRecord |-> h.left.records[h.left.count - 1],
             left |-> [h.left EXCEPT !.count = h.left.count - 1],
             right |-> [h.right EXCEPT !.branches[0] = h.left.branches[h.left.count]]]
        Written(m3, p) ==
            [m |-> writeNode(m3, m3.numNodes, p.right), moveUp |-> TRUE,
             newRecord |-> p.newRecord, newRight |-> m3.numNodes, thrown |-> FALSE,
             overflow |-> FALSE]
        Stored(m1, p) ==
            Written([writeBack(m1, currentRoot, p.left) EXCEPT !.numNodes = @ + 1], p)
        Read(m1) == Stored(m1, Promoted(Added(Halved(m1.cur))))
    IN Read(readNode(m, currentRoot))

\* split with median = MinKeys wherever the incoming record goes.
split_fixedMedian(m, currentRecord, currentRight, currentRoot, location) ==
    splitAt(m, currentRecord, currentRight, currentRoot, location, MinKeys)

\* split(currentRecord, currentRight, currentRoot, location, newRecord, newRight).
\* currentRecord aliases newRecord at the call; it is read (by addRecord) before
\* newRecord is assigned, so passing it by value is the same.
split(m, currentRecord, currentRight, currentRoot, location) ==
    splitAt(m, currentRecord, currentRight, currentRoot, location,
            IF location < MinKeys THEN MinKeys ELSE MinKeys + 1)

RECURSIVE pushDown(_, _, _)

\* pushDown without the readNode after the recursive call: the record moved
\* up is placed into whatever the working buffer holds.
pushDown_noReload(m, currentRecord, currentRoot) ==
    IF currentRoot = NilPtr
    THEN [m |-> m, moveUp |-> TRUE, newRecord |-> currentRecord, newRight |-> NilPtr,
          thrown |-> FALSE, overflow |-> FALSE]
    ELSE LET Place(m2, r, location) ==
                 IF m2.cur.count < MaxKeys
                 THEN [r EXCEPT !.m = writeBack(m2, currentRoot,
                                                addRecord(r.newRecord, r.newRight, m2.cur,
                                                          location + 1)),
                                !.moveUp = FALSE]
                 ELSE split(m2, r.newRecord, r.newRight, currentRoot, location)
             Back(r, location) ==
                 IF r.thrown \/ r.overflow \/ ~r.moveUp THEN r
                 ELSE Place(r.m, r, location)
             Down(m1, s) ==
                 IF s.found
                 THEN [m |-> m1, moveUp |-> FALSE, newRecord |-> Record,
                       newRight |-> NilPtr, thrown |-> TRUE, overflow |-> FALSE]
                 ELSE IF m1.file.fail /\ m1.cur.branches[s.location + 1] # NilPtr
                 THEN [m |-> m1, moveUp |-> FALSE, newRecord |-> Record,
                       newRight |-> NilPtr, thrown |-> FALSE, overflow |-> TRUE]
                 ELSE Back(pushDown(m1, currentRecord, m1.cur.branches[s.location + 1]),
                           s.location)
             Visit(m1) == Down(m1, searchNode(m1.cur, currentRecord.key))
         IN Visit(readNode(m, currentRoot))

\* pushDown(currentRecord, currentRoot, moveUp, newRecord, newRight); thrown
\* when the key is found on the way down (std::runtime_error).  Visit: the
\* node is read and searched; Down: the key is found or the descent goes on;
\* Back: the recursive call has returned r; Place: the node was read again
\* and takes the record moved up, or is split.
\* overflow: the result of readNode is not looked at; after a failed read the
\* buffer is as it was and failbit stays set, so a call on a branch other
\* than NilPtr reads, searches and calls itself with the same arguments
\* again and again: the recursion never returns and the stack runs out.
pushDown(m, currentRecord, currentRoot) ==
    IF currentRoot = NilPtr
    THEN [m |-> m, moveUp |-> TRUE, newRecord |-> currentRecord, newRight |-> NilPtr,
          thrown |-> FALSE, overflow |-> FALSE]
    ELSE LET Place(m2, r, location) ==
                 IF m2.cur.count < MaxKeys
                 THEN [r EXCEPT !.m = writeBack(m2, currentRoot,
                                                addRecord(r.newRecord, r.newRight, m2.cur,
                                                          location + 1)),
                                !.moveUp = FALSE]
                 ELSE split(m2, r.newRecord, r.newRight, currentRoot, location)
             Back(r, location) ==
                 IF r.thrown \/ r.overflow \/ ~r.moveUp THEN r
                 ELSE Place(readNode(r.m, currentRoot), r, location)
             Down(m1, s) ==
                 IF s.found
                 THEN [m |-> m1, moveUp |-> FALSE, newRecord |-> Record,
                       newRight |-> NilPtr, thrown |-> TRUE, overflow |-> FALSE]
                 ELSE IF m1.file.fail /\ m1.cur.branches[s.location + 1] # NilPtr
                 THEN [m |-> m1, moveUp |-> FALSE, newRecord |-> Record,
                       newRight |-> NilPtr, thrown |-> FALSE, overflow |-> TRUE]
                 ELSE Back(pushDown(m1, currentRecord, m1.cur.branches[s.location + 1]),
                           s.location)
             Visit(m1) == Down(m1, searchNode(m1.cur, currentRecord.key))
         IN Visit(readNode(m, currentRoot))

\* ------------------------------------------------------------------------
\* The public operations, on o = the fields of the object and the file
\* ------------------------------------------------------------------------

Self ==
    [disk |-> disk, file |-> file_, mode |-> mode_, isOpen |-> isOpen_, root |-> root_,
     numItems |-> numItems_, numNodes |-> numNodes_, cur |-> currentNode_]

\* The part of o the private helpers work on, and o with that part put back.
Pager(o) == [disk |-> o.disk, file |-> o.file, cur |-> o.cur, numNodes |-> o.numNodes]

WithPager(o, m) ==
    [o EXCEPT !.disk = m.disk, !.file = m.file, !.cur = m.cur, !.numNodes = m.numNodes]

\* close() without the writeMetadata() of a write session.
close_noHeader(o) ==
    IF ~o.isOpen THEN o
    ELSE [o EXCEPT !.file.open = FALSE, !.file.out = FALSE,
                   !.isOpen = FALSE, !.root = NilPtr, !.numItems = 0, !.numNodes = 0]

\* close() without the early return of a session that is not open.
close_unguarded(o) ==
    LET o1 == IF o.mode = "Write"
              THEN WithPager(o, writeMetadata(Pager(o), o.numItems, o.root))
              ELSE o
    IN [o1 EXCEPT !.file.open = FALSE, !.file.out = FALSE,
                  !.isOpen = FALSE, !.root = NilPtr, !.numItems = 0, !.numNodes = 0]

\* close() without numItems_ = 0.
close_keepsItems(o) ==
    IF ~o.isOpen THEN o
    ELSE LET o1 == IF o.mode = "Write"
                   THEN WithPager(o, writeMetadata(Pager(o), o.numItems, o.root))
                   ELSE o
         IN [o1 EXCEPT !.file.open = FALSE, !.file.out = FALSE,
                       !.isOpen = FALSE, !.root = NilPtr, !.numNodes = 0]

\* close().
close(o) ==
    IF ~o.isOpen THEN o
    ELSE LET o1 == IF o.mode = "Write"
                   THEN WithPager(o, writeMetadata(Pager(o), o.numItems, o.root))
                   ELSE o
         IN [o1 EXCEPT !.file.open = FALSE, !.file.out = FALSE,
                       !.isOpen = FALSE, !.root = NilPtr, !.numItems = 0, !.numNodes = 0]

\* operator=(BTree&&) without other.isOpen_ = false.
moveAssign_keepsOpen(this, other, fail) ==
    [this |-> [close(this) EXCEPT !.disk = other.disk,
                                  !.file = other.file,
                                  !.mode = other.mode,
                                  !.isOpen = other.isOpen,
                                  !.root = other.root,
                                  !.numItems = other.numItems,
                                  !.numNodes = other.numNodes,
                                  !.cur = other.cur],
     other |-> [other EXCEPT !.file = [open |-> FALSE, out |-> FALSE, fail |-> fail]],
     left |-> close(this).disk]

\* operator=(BTree&& other) for this != &other: close(), then every member is
\* taken from other and other.isOpen_ = false.  The stream moved from is
\* closed, its state flags unspecified (fail).  this.disk: the file the
\* stream of this is attached to afterwards; left: the file this worked on.
moveAssign(this, other, fail) ==
    [this |-> [close(this) EXCEPT !.disk = other.disk,
                                  !.file = other.file,
                                  !.mode = other.mode,
                                  !.isOpen = other.isOpen,
                                  !.root = other.root,
                                  !.numItems = other.numItems,
                                  !.numNodes = other.numNodes,
                                  !.cur = other.cur],
     other |-> [other EXCEPT !.file = [open |-> FALSE, out |-> FALSE, fail |-> fail],
                             !.isOpen = FALSE],
     left |-> close(this).disk]

\* BTree(BTree&& other): *this = std::move(other) on members that were not
\* initialised: file_ and currentNode_ are default-constructed, mode_,
\* isOpen_, root_, numItems_, numNodes_ hold whatever was there.
moveConstruct(other, fail, garbage) ==
    moveAssign([disk |-> NoFile, file |-> [open |-> FALSE, out |-> FALSE, fail |-> FALSE],
                mode |-> garbage.mode, isOpen |-> garbage.isOpen, root |-> garbage.root,
                numItems |-> garbage.numItems, numNodes |-> garbage.numNodes,
                cur |-> Node],
               other, fail)

\* open whose Write branch lacks std::ios::trunc.
open_noTrunc(o, mode, envOk) ==
    LET Loaded(o2, m) ==
            IF m.file.fail
            THEN [o |-> [WithPager(o2, m) EXCEPT !.file.open = FALSE], ret |-> FALSE]
            ELSE [o |-> [WithPager(o2, m) EXCEPT !.numItems = m.cur.branches[0],
                                                 !.numNodes = m.cur.branches[1],
                                                 !.root = m.cur.branches[2],
                                                 !.isOpen = TRUE],
                  ret |-> TRUE]
        ReadHeader(o2) == Loaded(o2, readNode(Pager(o2), 0))
        Created(o2) ==
            [o |-> [WithPager(o2, writeMetadata(Pager(o2), o2.numItems, o2.root))
                        EXCEPT !.isOpen = TRUE],
             ret |-> TRUE]
        Closed(o1) ==
            IF mode = "Read"
            THEN IF ~envOk \/ o1.disk = NoFile \/ o1.file.open
                 THEN [o |-> [o1 EXCEPT !.file.fail = TRUE], ret |-> FALSE]
                 ELSE ReadHeader([o1 EXCEPT !.file = [open |-> TRUE, out |-> FALSE,
                                                      fail |-> FALSE]])
            ELSE IF ~envOk \/ o1.file.open
                 THEN [o |-> [o1 EXCEPT !.file.fail = TRUE], ret |-> FALSE]
                 ELSE Created([o1 EXCEPT !.file = [open |-> TRUE, out |-> TRUE,
                                                   fail |-> FALSE],
                                         !.disk = IF o1.disk = NoFile THEN << >>
                                                  ELSE o1.disk,
                                         !.root = NilPtr, !.numItems = 0, !.numNodes = 0])
    IN Closed([close(o) EXCEPT !.mode = mode])


\* open(filename, mode); envOk: the operating system lets the file be opened
\* (for Read the file must exist as well).  ret is the value returned.
open(o, mode, envOk) ==
    LET Loaded(o2, m) ==
            IF m.file.fail
            THEN [o |-> [WithPager(o2, m) EXCEPT !.file.open = FALSE], ret |-> FALSE]
            ELSE [o |-> [WithPager(o2, m) EXCEPT !.numItems = m.cur.branches[0],
                                                 !.numNodes = m.cur.branches[1],
                                                 !.root = m.cur.branches[2],
                                                 !.isOpen = TRUE],
                  ret |-> TRUE]
        ReadHeader(o2) == Loaded(o2, readNode(Pager(o2), 0))
        Created(o2) ==
            [o |-> [WithPager(o2, writeMetadata(Pager(o2), o2.numItems, o2.root))
                        EXCEPT !.isOpen = TRUE],
             ret |-> TRUE]
        Closed(o1) ==
            IF mode = "Read"
            THEN IF ~envOk \/ o1.disk = NoFile \/ o1.file.open
                 THEN [o |-> [o1 EXCEPT !.file.fail = TRUE], ret |-> FALSE]
                 ELSE ReadHeader([o1 EXCEPT !.file = [open |-> TRUE, out |-> FALSE,
                                                      fail |-> FALSE]])
            ELSE IF ~envOk \/ o1.file.open
                 THEN [o |-> [o1 EXCEPT !.file.fail = TRUE], ret |-> FALSE]
                 ELSE Created([o1 EXCEPT !.file = [open |-> TRUE, out |-> TRUE,
                                                   fail |-> FALSE],
                                         !.disk = << >>,
                                         !.root = NilPtr, !.numItems = 0, !.numNodes = 0])
    IN Closed([close(o) EXCEPT !.mode = mode])


\* The if (moveUp) block with root_ = numNodes_ ahead of numNodes_++.
growRoot_staleRoot(o, r) ==
    IF r.moveUp
    THEN LET Rooted(o3, newRoot) == WithPager(o3, writeNode(Pager(o3), o3.root, newRoot))
         IN Rooted([o EXCEPT !.numNodes = o.numNodes + 1, !.root = o.numNodes],
                   [Node EXCEPT !.count = 1,
                                !.records[0] = r.newRecord,
                                !.branches[0] = o.root,
                                !.branches[1] = r.newRight])
    ELSE o

\* The if (moveUp) block of insert: a new root node holding newRecord, the
\* old root on its left and newRight on its right, written at ++numNodes_.
growRoot(o, r) ==
    IF r.moveUp
    THEN LET Rooted(o3, newRoot) == WithPager(o3, writeNode(Pager(o3), o3.root, newRoot))
         IN Rooted([o EXCEPT !.numNodes = o.numNodes + 1, !.root = o.numNodes + 1],
                   [Node EXCEPT !.count = 1,
                                !.records[0] = r.newRecord,
                                !.branches[0] = o.root,
                                !.branches[1] = r.newRight])
    ELSE o

\* numItems_++.
countItem(o) == [o EXCEPT !.numItems = o.numItems + 1]

\* insert with numItems_++ ahead of pushDown: counted whether it throws or not.
returned_countFirst(o, r) ==
    IF r.thrown
    THEN [o |-> countItem(WithPager(o, r.m)), raised |-> "DuplicateKey"]
    ELSE [o |-> countItem(growRoot(WithPager(o, r.m), r)), raised |-> ""]

\* insert with numItems_++ inside the if (moveUp) block.
returned_countOnGrow(o, r) ==
    IF r.thrown
    THEN [o |-> WithPager(o, r.m), raised |-> "DuplicateKey"]
    ELSE [o |-> IF r.moveUp THEN countItem(growRoot(WithPager(o, r.m), r))
                ELSE WithPager(o, r.m),
          raised |-> ""]

\* insert with the header rewritten after every insert that returns normally.
returned_withHeader(o, r) ==
    LET Saved(o2) == WithPager(o2, writeMetadata(Pager(o2), o2.numItems, o2.root))
    IN IF r.overflow
       THEN [o |-> WithPager(o, r.m), raised |-> "StackOverflow"]
       ELSE IF r.thrown
       THEN [o |-> WithPager(o, r.m), raised |-> "DuplicateKey"]
       ELSE [o |-> Saved(countItem(growRoot(WithPager(o, r.m), r))), raised |-> ""]

\* insert after pushDown has returned r or thrown, or has used up the stack.
returned(o, r) ==
    IF r.overflow
    THEN [o |-> WithPager(o, r.m), raised |-> "StackOverflow"]
    ELSE IF r.thrown
    THEN [o |-> WithPager(o, r.m), raised |-> "DuplicateKey"]
    ELSE [o |-> countItem(growRoot(WithPager(o, r.m), r)), raised |-> ""]

\* insert with && in place of || in the guard.
insert_andGuard(o, key, data) ==
    IF ~o.isOpen /\ o.mode # "Write"
    THEN [o |-> o, raised |-> "NotWritable"]
    ELSE returned(o, pushDown(Pager(o), [key |-> strncpy(key), data |-> data], o.root))

\* insert(key, data); raised is "" when insert returns normally.
insert(o, key, data) ==
    IF ~o.isOpen \/ o.mode # "Write"
    THEN [o |-> o, raised |-> "NotWritable"]
    ELSE returned(o, pushDown(Pager(o), [key |-> strncpy(key), data |-> data], o.root))


\* The loop of retrieve: while (current != NilPtr).  The result of readNode is
\* not looked at.  diverged: the descent is still running after MaxDescent reads.
RECURSIVE descend(_, _, _, _)
descend(m, searchKey, current, fuel) ==
    IF current = NilPtr
    THEN [m |-> m, found |-> FALSE, data |-> 0, diverged |-> FALSE]
    ELSE IF fuel = 0
    THEN [m |-> m, found |-> FALSE, data |-> 0, diverged |-> TRUE]
    ELSE LET m1 == readNode(m, current)
             s == searchNode(m1.cur, searchKey)
         IN IF s.found
            THEN [m |-> m1, found |-> TRUE, data |-> m1.cur.records[s.location].data,
                  diverged |-> FALSE]
            ELSE descend(m1, searchKey, m1.cur.branches[s.location + 1], fuel - 1)

\* retrieve with root_ as the cursor of the loop in place of the local current.
retrieve_rootCursor(o, key) ==
    IF ~o.isOpen
    THEN [o |-> o, found |-> FALSE, data |-> 0, diverged |-> FALSE]
    ELSE LET Descended(r) ==
                 [o |-> [WithPager(o, r.m) EXCEPT !.root = IF r.found THEN o.root ELSE NilPtr],
                  found |-> r.found, data |-> r.data, diverged |-> r.diverged]
         IN Descended(descend(Pager(o), strncpy(key), o.root, MaxDescent))

\* retrieve(key, data).
retrieve(o, key) ==
    IF ~o.isOpen
    THEN [o |-> o, found |-> FALSE, data |-> 0, diverged |-> FALSE]
    ELSE LET Descended(r) ==
                 [o |-> WithPager(o, r.m), found |-> r.found, data |-> r.data,
                  diverged |-> r.diverged]
         IN Descended(descend(Pager(o), strncpy(key), o.root, MaxDescent))

\* contains(key): retrieve into a buffer that is thrown away.
contains(o, key) ==
    LET Looked(r) == [o |-> r.o, found |-> r.found, diverged |-> r.diverged]
    IN Looked(retrieve(o, key))

\* empty(), size(), isOpen().
isOpen(o) == o.isOpen

empty(o) == o.root = NilPtr

size(o) == o.numItems

\* ------------------------------------------------------------------------
\* The state machine: a program that constructs one BTree and calls its
\* public operations in any order with any arguments.
\* ------------------------------------------------------------------------

Modes == {"Read", "Write"}

NeverClosed == [valid |-> FALSE, size |-> 0, empty |-> TRUE, root |-> NilPtr, numNodes |-> 0]

NoOp == [op |-> "none", key |-> << >>, data |-> 0, result |-> ""]

\* The second object before its constructor has run: no object there.
NotMade ==
    [made |-> FALSE, on |-> "own", file |-> [open |-> FALSE, out |-> FALSE, fail |-> FALSE],
     mode |-> "Read", isOpen |-> FALSE, root |-> NilPtr, numItems |-> 0, numNodes |-> 0,
     cur |-> Node]

\* No instantiation chosen.
NoConfig ==
    [KeySize |-> 0, DataSize |-> 0, NodeSize |-> 0, instantiated |-> FALSE,
     order |-> 0, maxKeys |-> 0, minKeys |-> 0, nodeSize |-> 0]

\* ProductIndex(): recordCount_(0), isOpen_(false), an empty buffer_ and an
\* indexFile_ that is not open.
NewIndex ==
    [buffer |-> << >>, file |-> [open |-> FALSE, fail |-> FALSE], recordCount |-> 0,
     isOpen |-> FALSE]

\* Nothing added, no file written, no call made.
NoLog ==
    [added |-> << >>, built |-> << >>, op |-> "none", id |-> << >>, ret |-> FALSE,
     nodeKey |-> 0]

\* BTree(): mode_(Read), isOpen_(false), root_(NilPtr), numItems_(0), numNodes_(0);
\* no index file exists yet.
Starts(sizes, configs) ==
    /\ NodeSize \in sizes
    /\ disk = NoFile
    /\ file_ = [open |-> FALSE, out |-> FALSE, fail |-> FALSE]
    /\ mode_ = "Read"
    /\ isOpen_ = FALSE
    /\ root_ = NilPtr
    /\ numItems_ = 0
    /\ numNodes_ = 0
    /\ currentNode_ = Node
    /\ lastOp = NoOp
    /\ inserted = {}
    /\ nSucc = 0
    /\ atClose = NeverClosed
    /\ that = NotMade
    /\ thatDisk = NoFile
    /\ config \in configs
    /\ index = NewIndex
    /\ indexFile = NoFile
    /\ indexLog = NoLog

Constructed(sizes) == Starts(sizes, {NoConfig})

Init == Constructed(NodeSizes)

\* The fields of the object and the file become those of o.
Becomes(o) ==
    /\ disk' = o.disk
    /\ file_' = o.file
    /\ mode_' = o.mode
    /\ isOpen_' = o.isOpen
    /\ root_' = o.root
    /\ numItems_' = o.numItems
    /\ numNodes_' = o.numNodes
    /\ currentNode_' = o.cur

\* What a close() of the current session records: the getters just before it.
ClosingWrite == isOpen_ /\ mode_ = "Write"

NoteClose ==
    atClose' = IF ClosingWrite
               THEN [valid |-> TRUE, size |-> size(Self), empty |-> empty(Self),
                     root |-> root_, numNodes |-> numNodes_]
               ELSE atClose

Open(mode, envOk) ==
    \E r \in {open(Self, mode, envOk)} :
        /\ Becomes(r.o)
        /\ lastOp' = [op |-> "open", key |-> << >>, data |-> 0,
                      result |-> IF r.ret THEN mode ELSE "failed"]
        /\ IF mode = "Write" /\ r.ret
           THEN /\ inserted' = {}
                /\ nSucc' = 0
                /\ atClose' = NeverClosed
           ELSE /\ UNCHANGED <<inserted, nSucc>>
                /\ NoteClose
        /\ UNCHANGED <<NodeSize, aside>>

Close ==
    /\ Becomes(close(Self))
    /\ lastOp' = [op |-> "close", key |-> << >>, data |-> 0, result |-> ""]
    /\ NoteClose
    /\ UNCHANGED <<NodeSize, inserted, nSucc, aside>>

\* insert(key, data) on the object in state o (its state at the call);
\* lastOp keeps the arguments of an insert that reached the tree.
InsertOn(o, key, data, cap) ==
    \E r \in {insert(o, key, data)} :
        /\ r.raised = "" => numItems_ < cap
        /\ Becomes(r.o)
        /\ lastOp' = IF r.raised = "NotWritable"
                     THEN [op |-> "insert", key |-> << >>, data |-> 0,
                           result |-> r.raised]
                     ELSE [op |-> "insert", key |-> key, data |-> data,
                           result |-> r.raised]
        /\ IF r.raised = ""
           THEN /\ inserted' = inserted \cup {<<Normalized(key), data>>}
                /\ nSucc' = nSucc + 1
           ELSE UNCHANGED <<inserted, nSucc>>
        /\ UNCHANGED <<NodeSize, atClose, aside>>

InsertUpTo(key, data, cap) == InsertOn(Self, key, data, cap)

Insert(key, data) == InsertUpTo(key, data, MaxInserts)

\* lastOp keeps what retrieve returned.
Retrieve(key) ==
    \E r \in {retrieve(Self, key)} :
        /\ Becomes(r.o)
        /\ lastOp' = [op |-> "retrieve", key |-> << >>, data |-> r.data,
                      result |-> IF r.diverged THEN "diverged"
                                 ELSE IF r.found THEN "found" ELSE "notfound"]
        /\ UNCHANGED <<NodeSize, inserted, nSucc, atClose, aside>>

Next ==
    \/ \E mode \in Modes, envOk \in BOOLEAN : Open(mode, envOk)
    \/ Close
    \/ \E key \in InputKeys, data \in Payloads : Insert(key, data)
    \/ \E key \in InputKeys : Retrieve(key)

Spec == Init /\ [][Next]_vars

\* ------------------------------------------------------------------------
\* The bulk-load program of BTreeTest (test_node_splitting,
\* test_reverse_insertion_order, test_random_insertion_order): open for
\* writing, insert keys in some order, each with a payload computed from the
\* key, close, open for reading and look keys up.  It inserts every key a
\* key field can hold, so that the tree grows to three levels.
\* ------------------------------------------------------------------------

BulkKeys == KeysUpTo(BulkChars, KeySize - 1)

\* The payload stored with a key: a different one for every key.
RECURSIVE BulkData(_)
BulkData(key) ==
    IF key = << >> THEN 1
    ELSE 3 * (BulkData(SubSeq(key, 1, Len(key) - 1)) - 1) + key[Len(key)] + 1

BulkInit == Constructed(BulkNodeSizes)

BulkOpenWrite == lastOp.op = "none" /\ Open("Write", TRUE)

\* A key the program inserted before is tried again with another payload.
BulkInsert(key) ==
    /\ isOpen_ /\ mode_ = "Write"
    /\ InsertUpTo(key,
                  IF \E e \in inserted : e[1] = key THEN BulkData(key) + 1 ELSE BulkData(key),
                  MaxBulkInserts)

BulkClose == isOpen_ /\ mode_ = "Write" /\ Close

BulkOpenRead == ~isOpen_ /\ lastOp.op = "close" /\ Open("Read", TRUE)

BulkRetrieve(key) == isOpen_ /\ mode_ = "Read" /\ Retrieve(key)

BulkNext ==
    \/ BulkOpenWrite
    \/ \E key \in BulkKeys : BulkInsert(key)
    \/ BulkClose
    \/ BulkOpenRead
    \/ \E key \in BulkKeys : BulkRetrieve(key)

BulkSpec == BulkInit /\ [][BulkNext]_vars

\* ------------------------------------------------------------------------
\* The bulk-load program on a file that is cut short between the close of
\* the write session and the open for reading: the reads of readNode that
\* come up short (BTree.h 371-375) and what retrieve does with them.
\* ------------------------------------------------------------------------

\* The closed file loses its last block.
Truncate ==
    /\ ~isOpen_ /\ lastOp.op = "close"
    /\ Len(disk) > 0
    /\ disk' = SubSeq(disk, 1, Len(disk) - 1)
    /\ UNCHANGED <<NodeSize, file_, mode_, isOpen_, root_, numItems_, numNodes_,
                   currentNode_, lastOp, inserted, nSucc, atClose, aside>>

DamagedNext ==
    \/ BulkOpenWrite
    \/ \E key \in BulkKeys : BulkInsert(key)
    \/ BulkClose
    \/ Truncate
    \/ BulkOpenRead
    \/ \E key \in BulkKeys : BulkRetrieve(key)

DamagedSpec == BulkInit /\ [][DamagedNext]_vars

\* ------------------------------------------------------------------------
\* The bulk-load program on a device that fails while the tree is built: from
\* the first readNode or writeNode of some insert on, every transfer fails
\* (BTree.h 371-381: failbit is set and stays set, nothing is moved).  None of
\* the callers looks at what readNode and writeNode return.
\* ------------------------------------------------------------------------

\* The process has not died of a recursion without end.
Alive == lastOp.result # "StackOverflow"

\* The data the bulk-load program passes with key.
BulkPass(key) ==
    IF \E e \in inserted : e[1] = key THEN BulkData(key) + 1 ELSE BulkData(key)

\* On the failing device the program performs at most MaxFaultyInserts inserts
\* that return normally.
MaxFaultyInserts == 5

FaultyInit == Constructed(NodeSizes)

FaultyOpenWrite == Alive /\ BulkOpenWrite

FaultyInsert(key) ==
    /\ Alive
    /\ isOpen_ /\ mode_ = "Write"
    /\ InsertUpTo(key, BulkPass(key), MaxFaultyInserts)

\* insert(key, data) whose first transfer is the first that fails.
FailingInsert(key) ==
    /\ Alive
    /\ isOpen_ /\ mode_ = "Write"
    /\ ~file_.fail
    /\ InsertOn([Self EXCEPT !.file.fail = TRUE], key, BulkPass(key), MaxFaultyInserts)

FaultyClose == Alive /\ BulkClose

FaultyOpenRead == Alive /\ BulkOpenRead

FaultyRetrieve(key) == Alive /\ BulkRetrieve(key)

FaultyNext ==
    \/ FaultyOpenWrite
    \/ \E key \in BulkKeys : FaultyInsert(key)
    \/ \E key \in BulkKeys : FailingInsert(key)
    \/ FaultyClose
    \/ FaultyOpenRead
    \/ \E key \in BulkKeys : FaultyRetrieve(key)

FaultySpec == FaultyInit /\ [][FaultyNext]_vars

\* ------------------------------------------------------------------------
\* A program with two objects (test_move_semantics): the first opens the
\* index file and inserts; the second is default-constructed and may hold a
\* write session on a file of its own, or is not constructed yet; the first
\* is moved into the second; then the first is closed or destroyed and the
\* second is used and closed.
\* ------------------------------------------------------------------------

\* The first object inserts at most MaxMoveInserts records, the second at
\* most MaxThatInserts into its own file.
MaxMoveInserts == 3

MaxThatInserts == 1

\* The keys the two objects insert and look up.
MoveKeys == {<< >>, <<1>>, <<2>>, <<1, 2>>}

\* The values uninitialised members may hold.
Garbage ==
    [mode : Modes, isOpen : BOOLEAN, root : {NilPtr, 7}, numItems : {0, 7},
     numNodes : {0, 7}]

\* The second object and the file its stream is attached to: its own, or
\* after the move the file of the first.
ThatSelf ==
    [disk |-> IF that.on = "moved" THEN disk ELSE thatDisk, file |-> that.file,
     mode |-> that.mode, isOpen |-> that.isOpen, root |-> that.root,
     numItems |-> that.numItems, numNodes |-> that.numNodes, cur |-> that.cur]

ThatOf(o, on) ==
    [made |-> TRUE, on |-> on, file |-> o.file, mode |-> o.mode, isOpen |-> o.isOpen,
     root |-> o.root, numItems |-> o.numItems, numNodes |-> o.numNodes, cur |-> o.cur]

\* The second object and the file it is attached to become those of o.
ThatBecomes(o) ==
    /\ that' = ThatOf(o, that.on)
    /\ IF that.on = "moved"
       THEN disk' = o.disk /\ UNCHANGED thatDisk
       ELSE thatDisk' = o.disk /\ UNCHANGED disk

first == <<NodeSize, file_, mode_, isOpen_, root_, numItems_, numNodes_, currentNode_>>

history == <<inserted, nSucc, atClose>>

NotMoved == that.on = "own"

MoveOpen(mode) ==
    /\ NotMoved /\ ~isOpen_ /\ lastOp.op \in {"none", "close"}
    /\ mode = "Read" => disk # NoFile
    /\ Open(mode, TRUE)

MoveInsert(key) ==
    /\ NotMoved /\ isOpen_ /\ mode_ = "Write"
    /\ ~\E e \in inserted : e[1] = key
    /\ InsertUpTo(key, BulkData(key), MaxMoveInserts)

MoveClose == NotMoved /\ isOpen_ /\ Close

\* BTree that;
ThatConstruct ==
    /\ ~that.made
    /\ that' = [NotMade EXCEPT !.made = TRUE]
    /\ UNCHANGED <<first, disk, lastOp, history, thatDisk, apart>>

\* that.open(own path, Write)
ThatOpenWrite ==
    /\ that.made /\ NotMoved /\ ~that.isOpen /\ thatDisk = NoFile
    /\ ThatBecomes(open(ThatSelf, "Write", TRUE).o)
    /\ UNCHANGED <<first, lastOp, history, apart>>

\* that.insert(key, data) into its own file.
ThatInsert(key) ==
    /\ that.made /\ NotMoved /\ that.isOpen /\ that.mode = "Write"
    /\ that.numItems < MaxThatInserts
    /\ \E r \in {insert(ThatSelf, key, BulkData(key))} :
           /\ r.raised = ""
           /\ ThatBecomes(r.o)
    /\ UNCHANGED <<first, lastOp, history, apart>>

\* What both moves do to the two objects: the second gets the session, the
\* first is left not open, the file of the first is not touched.
Moved(r) ==
    /\ that' = ThatOf(r.this, "moved")
    /\ thatDisk' = r.left
    /\ file_' = r.other.file
    /\ mode_' = r.other.mode
    /\ isOpen_' = r.other.isOpen
    /\ root_' = r.other.root
    /\ numItems_' = r.other.numItems
    /\ numNodes_' = r.other.numNodes
    /\ currentNode_' = r.other.cur
    /\ disk' = r.other.disk
    /\ lastOp' = [op |-> "move", key |-> << >>, data |-> 0, result |-> ""]
    /\ UNCHANGED <<NodeSize, history, apart>>

\* that = std::move(first);
MoveAssign ==
    /\ isOpen_ /\ that.made /\ NotMoved
    /\ \E fail \in BOOLEAN : Moved(moveAssign(ThatSelf, Self, fail))

\* BTree that(std::move(first));
MoveConstruct ==
    /\ isOpen_ /\ ~that.made
    /\ \E fail \in BOOLEAN, garbage \in Garbage : Moved(moveConstruct(Self, fail, garbage))

\* first.close() or the destructor of first, after the move.
CloseMovedFrom == ~NotMoved /\ lastOp.op # "close" /\ Close

\* that.retrieve(key, data) after the move.
ThatRetrieve(key) ==
    /\ ~NotMoved /\ that.isOpen
    /\ \E r \in {retrieve(ThatSelf, key)} :
           /\ ThatBecomes(r.o)
           /\ lastOp' = [op |-> "that.retrieve", key |-> << >>, data |-> r.data,
                         result |-> IF r.diverged THEN "diverged"
                                    ELSE IF r.found THEN "found" ELSE "notfound"]
    /\ UNCHANGED <<first, history, apart>>

\* that.close() after the move.
ThatClose ==
    /\ ~NotMoved /\ that.isOpen
    /\ ThatBecomes(close(ThatSelf))
    /\ lastOp' = [op |-> "that.close", key |-> << >>, data |-> 0, result |-> ""]
    /\ UNCHANGED <<first, history, apart>>

MoveNext ==
    \/ \E mode \in Modes : MoveOpen(mode)
    \/ \E key \in MoveKeys : MoveInsert(key)
    \/ MoveClose
    \/ ThatConstruct
    \/ ThatOpenWrite
    \/ \E key \in MoveKeys : ThatInsert(key)
    \/ MoveAssign
    \/ MoveConstruct
    \/ CloseMovedFrom
    \/ \E key \in MoveKeys : ThatRetrieve(key)
    \/ ThatClose

MoveInit == Constructed(NodeSizes)

MoveSpec == MoveInit /\ [][MoveNext]_vars

\* ------------------------------------------------------------------------
\* The compile-time geometry of any instantiation BTree<KeySize, DataSize,
\* NodeSize> (BTree.h 52-57, 106, 355-360): a program that instantiates the
\* template with some arguments and asks the reporters.
\* ------------------------------------------------------------------------

\* size_t arithmetic is modulo 2^64; the model keeps the wrap-around at
\* 2^SizeBits, far above every value that occurs here.
SizeBits == 20

SizeT(x) == x % (2 ^ SizeBits)

\* The template arguments tried: node sizes below sizeof(int), node sizes the
\* records do not fit three times, exact fits and the sizes of BTreeTest.
ConfigKeySizes == {1, 3, 16, 32, 256}

ConfigDataSizes == {1, 8, 256}

ConfigNodeSizes == {0, 3, 28, 40, 52, 64, 256, 4092, 4096}

\* Order without the minimum of 3.
Geometry_noClamp(k, d, n) ==
    LET Derived(recordSize) ==
            LET Clamped(orderCalc) ==
                    LET Sized(order) ==
                            [order |-> order,
                             maxKeys |-> SizeT(order - 1),
                             minKeys |-> SizeT(order - 1) \div 2,
                             nodeSize |-> SizeT(SizeofInt + SizeT(order - 1) * recordSize
                                                + order * SizeofLong)]
                    IN Sized(orderCalc)
            IN Clamped(SizeT(SizeT(SizeT(n - SizeofInt) + recordSize) + SizeofLong)
                       \div SizeT(recordSize + SizeofLong))
    IN Derived(SizeT(k + d))

\* RecordSize, OrderCalc, Order, MaxKeys, MinKeys and ActualNodeSize =
\* sizeof(Node) (packed: int count, Record records[MaxKeys], long
\* branches[Order]) for the arguments k, d, n.
Geometry(k, d, n) ==
    LET Derived(recordSize) ==
            LET Clamped(orderCalc) ==
                    LET Sized(order) ==
                            [order |-> order,
                             maxKeys |-> SizeT(order - 1),
                             minKeys |-> SizeT(order - 1) \div 2,
                             nodeSize |-> SizeT(SizeofInt + SizeT(order - 1) * recordSize
                                                + order * SizeofLong)]
                    IN Sized(IF orderCalc < 3 THEN 3 ELSE orderCalc)
            IN Clamped(SizeT(SizeT(SizeT(n - SizeofInt) + recordSize) + SizeofLong)
                       \div SizeT(recordSize + SizeofLong))
    IN Derived(SizeT(k + d))

Configs ==
    {[NoConfig EXCEPT !.KeySize = k, !.DataSize = d, !.NodeSize = n] :
        k \in ConfigKeySizes, d \in ConfigDataSizes, n \in ConfigNodeSizes}

GeometryInit == Starts(NodeSizes, Configs)

\* order(), maxKeys(), minKeys(), nodeSize() of the instantiation.
Instantiate ==
    /\ ~config.instantiated
    /\ \E g \in {Geometry(config.KeySize, config.DataSize, config.NodeSize)} :
           config' = [config EXCEPT !.instantiated = TRUE,
                                    !.order = g.order,
                                    !.maxKeys = g.maxKeys,
                                    !.minKeys = g.minKeys,
                                    !.nodeSize = g.nodeSize]
    /\ UNCHANGED <<NodeSize, disk, file_, mode_, isOpen_, root_, numItems_, numNodes_,
                   currentNode_, lastOp, inserted, nSucc, atClose, that, thatDisk,
                   index, indexFile, indexLog>>

GeometryNext == Instantiate

GeometrySpec == GeometryInit /\ [][GeometryNext]_vars

\* ------------------------------------------------------------------------
\* The sorted-array index of BTreeLib/ProductIndex: records are added to a
\* buffer, buildIndex sorts them and writes the file (a count, then the
\* records), lookup searches the file by bisection.
\* ------------------------------------------------------------------------

MAX_PRODUCT_ID_LEN == 64

\* A program adds at most MaxRecords records before it builds.
MaxRecords == 3

\* An id that fills the id field: MAX_PRODUCT_ID_LEN - 1 bytes.
FullId == [i \in 1..(MAX_PRODUCT_ID_LEN - 1) |-> 1]

\* The ids passed: short ones, one that fills the field and two that are
\* longer than the field and differ in their last byte only.
IndexIds == {<< >>, <<1>>, <<2>>, FullId, FullId \o <<1>>, FullId \o <<2>>}

\* The node key passed with the n-th record added (test_many_records).
NodeKeyOf(n) == n * 100

\* strncpy_s(dst, MAX_PRODUCT_ID_LEN, id.c_str(), MAX_PRODUCT_ID_LEN - 1)
\* into a zero-filled field.
strncpy_s(id) == SubSeq(id, 1, Min(Len(id), MAX_PRODUCT_ID_LEN - 1))

\* ProductRecord(id, key).
ProductRecord(id, key) == [productId |-> strncpy_s(id), nodeKey |-> key]

\* ProductRecord::operator<.
RecordLess(a, b) == strcmp(a.productId, b.productId) < 0

\* buffer in the order order of its positions.
Rearranged(buffer, order) == [i \in 1..Len(buffer) |-> buffer[order[i]]]

\* std::sort(buffer_.begin(), buffer_.end()): the buffer in some order that
\* is ascending by operator<; which one, among records that are not less
\* than one another, the library does not say.
std_sort(buffer) ==
    {Rearranged(buffer, order) :
        order \in {f \in [1..Len(buffer) -> 1..Len(buffer)] :
                      /\ \A i, j \in 1..Len(buffer) : i # j => f[i] # f[j]
                      /\ \A i, j \in 1..Len(buffer) :
                             i < j => ~RecordLess(buffer[f[j]], buffer[f[i]])}}

\* The object and the file at its path.
IndexSelf ==
    [buffer |-> index.buffer, file |-> index.file, recordCount |-> index.recordCount,
     isOpen |-> index.isOpen, disk |-> indexFile]

\* closeIndex().
closeIndex(o) ==
    [o EXCEPT !.file.open = FALSE, !.isOpen = FALSE, !.recordCount = 0]

\* openIndex(indexFilePath); envOk: the operating system lets the file be
\* opened.  A file that exists holds its count, so the read of the header
\* does not fail.
openIndex(o, envOk) ==
    LET Closed(o1) ==
            IF ~envOk \/ o1.disk = NoFile
            THEN [o |-> [o1 EXCEPT !.file.fail = TRUE], ret |-> FALSE]
            ELSE [o |-> [o1 EXCEPT !.file = [open |-> TRUE, fail |-> FALSE],
                                   !.recordCount = o1.disk[1].count,
                                   !.isOpen = TRUE],
                  ret |-> TRUE]
    IN Closed(closeIndex(o))

\* The file buildIndex writes: size_t count, then the records of the buffer.
IndexFileOf(buffer) == <<[count |-> Len(buffer)]>> \o buffer

\* Record n (from 0) of the file.
RecordAt(o, n) == o.disk[n + 2]

\* buildIndex without the std::sort.
buildIndex_noSort(o, sorted, outOk, inOk) ==
    IF o.buffer = << >> THEN [o |-> o, ret |-> FALSE, written |-> FALSE]
    ELSE IF ~outOk THEN [o |-> o, ret |-> FALSE, written |-> FALSE]
    ELSE LET Opened(r) == [o |-> r.o, ret |-> r.ret, written |-> TRUE]
         IN Opened(openIndex([o EXCEPT !.disk = IndexFileOf(o.buffer),
                                       !.buffer = << >>],
                             inOk))

\* buildIndex(indexFilePath); sorted: the buffer as std::sort leaves it;
\* outOk, inOk: the operating system lets the file be created and be opened
\* for reading.  written: the file was written.
buildIndex(o, sorted, outOk, inOk) ==
    IF o.buffer = << >> THEN [o |-> o, ret |-> FALSE, written |-> FALSE]
    ELSE IF ~outOk THEN [o |-> [o EXCEPT !.buffer = sorted], ret |-> FALSE,
                         written |-> FALSE]
    ELSE LET Opened(r) == [o |-> r.o, ret |-> r.ret, written |-> TRUE]
         IN Opened(openIndex([o EXCEPT !.disk = IndexFileOf(sorted),
                                       !.buffer = << >>],
                             inOk))

\* binarySearch(targetId, outNodeKey) with left and right as they stand at
\* the head of the loop.  The read of record mid fails past the end of the
\* file or on a stream that has failed.
RECURSIVE binarySearch(_, _, _, _)
binarySearch(o, targetId, left, right) ==
    IF ~(left < right) THEN [o |-> o, ret |-> FALSE, nodeKey |-> 0]
    ELSE LET Compared(mid, cmp) ==
                 IF cmp = 0
                 THEN [o |-> o, ret |-> TRUE, nodeKey |-> RecordAt(o, mid).nodeKey]
                 ELSE IF cmp < 0 THEN binarySearch(o, targetId, left, mid)
                 ELSE binarySearch(o, targetId, mid + 1, right)
             Read(mid) ==
                 IF o.file.open /\ ~o.file.fail /\ mid + 2 <= Len(o.disk)
                 THEN Compared(mid, strcmp(targetId, RecordAt(o, mid).productId))
                 ELSE [o |-> [o EXCEPT !.file.fail = TRUE], ret |-> FALSE, nodeKey |-> 0]
         IN Read(left + (right - left) \div 2)

\* lookup(productId, outNodeKey).
lookup(o, productId) ==
    IF ~o.isOpen \/ o.recordCount = 0 THEN [o |-> o, ret |-> FALSE, nodeKey |-> 0]
    ELSE binarySearch(o, strncpy_s(productId), 0, o.recordCount)

\* getRecordCount().
getRecordCount(o) == o.recordCount

\* The object and the file become those of o.
IndexBecomes(o) ==
    /\ index' = [buffer |-> o.buffer, file |-> o.file, recordCount |-> o.recordCount,
                 isOpen |-> o.isOpen]
    /\ indexFile' = o.disk

btree == <<NodeSize, disk, file_, mode_, isOpen_, root_, numItems_, numNodes_,
           currentNode_, lastOp, inserted, nSucc, atClose, that, thatDisk, config>>

\* index.addRecord(id, key), before the index is built.
AddRecord(id) ==
    /\ indexFile = NoFile
    /\ Len(index.buffer) < MaxRecords
    /\ \E key \in {NodeKeyOf(Len(index.buffer) + 1)} :
           /\ index' = [index EXCEPT !.buffer = Append(@, ProductRecord(id, key))]
           /\ indexLog' = [indexLog EXCEPT !.added = Append(@, <<id, key>>),
                                           !.op = "addRecord", !.id = id, !.ret = TRUE,
                                           !.nodeKey = key]
    /\ UNCHANGED <<btree, indexFile>>

\* index.buildIndex(path).
BuildIndex(outOk, inOk) ==
    /\ indexFile = NoFile
    /\ \E sorted \in std_sort(index.buffer) :
           \E r \in {buildIndex(IndexSelf, sorted, outOk, inOk)} :
               /\ IndexBecomes(r.o)
               /\ indexLog' = [indexLog EXCEPT
                                  !.added = IF r.written THEN << >> ELSE @,
                                  !.built = IF r.written THEN indexLog.added ELSE @,
                                  !.op = "buildIndex", !.id = << >>, !.ret = r.ret,
                                  !.nodeKey = 0]
    /\ UNCHANGED btree

\* index.openIndex(path).
OpenIndex(envOk) ==
    /\ \E r \in {openIndex(IndexSelf, envOk)} :
           /\ IndexBecomes(r.o)
           /\ indexLog' = [indexLog EXCEPT !.op = "openIndex", !.id = << >>,
                                           !.ret = r.ret, !.nodeKey = 0]
    /\ UNCHANGED btree

\* index.closeIndex().
CloseIndex ==
    /\ IndexBecomes(closeIndex(IndexSelf))
    /\ indexLog' = [indexLog EXCEPT !.op = "closeIndex", !.id = << >>, !.ret = TRUE,
                                    !.nodeKey = 0]
    /\ UNCHANGED btree

\* The object goes out of scope (~ProductIndex: closeIndex()) and another
\* one is constructed.
Renew ==
    /\ indexLog.op # "ProductIndex"
    /\ index' = [NewIndex EXCEPT !.file.fail = FALSE]
    /\ indexLog' = [indexLog EXCEPT !.added = << >>, !.op = "ProductIndex", !.id = << >>,
                                    !.ret = TRUE, !.nodeKey = 0]
    /\ UNCHANGED <<btree, indexFile>>

\* index.lookup(id, result).
Lookup(id) ==
    /\ \E r \in {lookup(IndexSelf, id)} :
           /\ IndexBecomes(r.o)
           /\ indexLog' = [indexLog EXCEPT !.op = "lookup", !.id = id, !.ret = r.ret,
                                           !.nodeKey = r.nodeKey]
    /\ UNCHANGED btree

IndexNext ==
    \/ \E id \in IndexIds : AddRecord(id)
    \/ \E outOk, inOk \in BOOLEAN : BuildIndex(outOk, inOk)
    \/ \E envOk \in BOOLEAN : OpenIndex(envOk)
    \/ CloseIndex
    \/ Renew
    \/ \E id \in IndexIds : Lookup(id)

IndexInit == Constructed({28})

IndexSpec == IndexInit /\ [][IndexNext]_vars

\* ------------------------------------------------------------------------
\* Reading a tree off the file of o
\* ------------------------------------------------------------------------

NodeOf(o, n) == o.disk[n + 1]

\* The children of node n: its branches 0..count that are not NilPtr.
Children(o, n) == {NodeOf(o, n).branches[i] : i \in 0..NodeOf(o, n).count} \ {NilPtr}

IsLeaf(o, n) == Children(o, n) = {}

\* The nodes of the subtree under n.
RECURSIVE SubtreeNodes(_, _)
SubtreeNodes(o, n) == {n} \cup UNION {SubtreeNodes(o, k) : k \in Children(o, n)}

TreeNodes(o) == IF o.root = NilPtr THEN {} ELSE SubtreeNodes(o, o.root)

\* The depths at which the leaves under n lie, n itself being at depth d.
RECURSIVE LeafDepths(_, _, _)
LeafDepths(o, n, d) ==
    IF IsLeaf(o, n) THEN {d}
    ELSE UNION {LeafDepths(o, k, d + 1) : k \in Children(o, n)}

\* The records of the subtree under n in in-order: child 0, record 0, child 1, ...
RECURSIVE InOrder(_, _)
RECURSIVE InOrderFrom(_, _, _)
InOrder(o, n) == IF n = NilPtr THEN << >> ELSE InOrderFrom(o, n, 0)

InOrderFrom(o, n, i) ==
    IF i = NodeOf(o, n).count THEN InOrder(o, NodeOf(o, n).branches[i])
    ELSE InOrder(o, NodeOf(o, n).branches[i]) \o <<NodeOf(o, n).records[i]>>
         \o InOrderFrom(o, n, i + 1)

TreeRecords(o) == InOrder(o, o.root)

\* Byte strings in lexicographic order: a strictly before b.
RECURSIVE Before(_, _)
Before(a, b) ==
    IF b = << >> THEN FALSE
    ELSE IF a = << >> THEN TRUE
    ELSE IF Head(a) # Head(b) THEN Head(a) < Head(b)
    ELSE Before(Tail(a), Tail(b))

\* The payloads successfully inserted under the key that key stands for.
Payload(key) == {e[2] : e \in {x \in inserted : x[1] = Normalized(key)}}

InWriteSession == isOpen_ /\ mode_ = "Write"

InReadSession == isOpen_ /\ mode_ = "Read"

\* Every key a lookup is tried with.
LookupKeys == InputKeys \cup BulkKeys

\* ------------------------------------------------------------------------
\* C1.  Inserts of distinct keys in a write session, close, open(path, Read):
\* retrieve finds every inserted key with exactly the payload given at its
\* insert and finds no key that was never inserted.
\* ------------------------------------------------------------------------
C1_RoundTrip ==
    InReadSession =>
        \A key \in LookupKeys :
            LET r == retrieve(Self, key)
            IN /\ ~r.diverged
               /\ r.found <=> Payload(key) # {}
               /\ r.found => Payload(key) = {r.data}

\* A read session on a three-level tree of seven records in which a lookup hit.
C1_Witness ==
    /\ InReadSession
    /\ nSucc = 7
    /\ LeafDepths(Self, root_, 0) = {2}
    /\ lastOp.op = "retrieve" /\ lastOp.result = "found"

\* ------------------------------------------------------------------------
\* C2.  After every successful insert every node other than the root holds
\* MinKeys..MaxKeys records, the root of a non-empty tree 1..MaxKeys, and all
\* leaves are at the same depth.
\* ------------------------------------------------------------------------
C2_Balanced ==
    isOpen_ =>
        /\ \A n \in TreeNodes(Self) \ {root_} :
               /\ MinKeys <= NodeOf(Self, n).count
               /\ NodeOf(Self, n).count <= MaxKeys
        /\ root_ # NilPtr =>
               /\ 1 <= NodeOf(Self, root_).count
               /\ NodeOf(Self, root_).count <= MaxKeys
               /\ Cardinality(LeafDepths(Self, root_, 0)) = 1

\* The insert that split the root of a two-level tree has just returned.
C2_Witness ==
    /\ InWriteSession
    /\ lastOp.op = "insert" /\ lastOp.result = ""
    /\ LeafDepths(Self, root_, 0) = {2}
    /\ root_ = numNodes_

\* ------------------------------------------------------------------------
\* C3.  After every successful insert the records of every node are strictly
\* ascending, the subtree under branch i holds only keys strictly between
\* record i-1 and record i, and the in-order traversal is strictly ascending.
\* ------------------------------------------------------------------------
NoBound == "none"

RECURSIVE Ordered(_, _, _, _)
Ordered(o, n, lo, hi) ==
    \/ n = NilPtr
    \/ LET node == NodeOf(o, n)
       IN /\ \A i \in 0..(node.count - 1) :
                 /\ lo = NoBound \/ Before(lo, node.records[i].key)
                 /\ hi = NoBound \/ Before(node.records[i].key, hi)
          /\ \A i \in 0..(node.count - 2) :
                 Before(node.records[i].key, node.records[i + 1].key)
          /\ \A i \in 0..node.count :
                 Ordered(o, node.branches[i],
                         IF i = 0 THEN lo ELSE node.records[i - 1].key,
                         IF i = node.count THEN hi ELSE node.records[i].key)

Ascending(records) ==
    \A i \in 1..(Len(records) - 1) : Before(records[i].key, records[i + 1].key)

C3_Sorted ==
    isOpen_ =>
        /\ Ordered(Self, root_, NoBound, NoBound)
        /\ Ascending(TreeRecords(Self))

\* A three-level tree holding every key a key field can hold.
C3_Witness ==
    /\ InWriteSession
    /\ lastOp.op = "insert" /\ lastOp.result = ""
    /\ LeafDepths(Self, root_, 0) = {2}
    /\ Len(TreeRecords(Self)) = Cardinality(BulkKeys)

\* The object and the file after the step.
SelfNext ==
    [disk |-> disk', file |-> file_', mode |-> mode_', isOpen |-> isOpen_', root |-> root_',
     numItems |-> numItems_', numNodes |-> numNodes_', cur |-> currentNode_']

\* The keys of the records in the tree of o.
StoredKeys(o) == {TreeRecords(o)[i].key : i \in 1..Len(TreeRecords(o))}

\* ------------------------------------------------------------------------
\* C4.  insert of a key that is already present, at whatever depth, raises
\* DuplicateKey and changes nothing: size(), root, num_nodes and every block
\* of the file stay as they were, and retrieve of the key still returns the
\* payload of the first insert.
\* ------------------------------------------------------------------------
DuplicateStep == InWriteSession /\ lastOp'.op = "insert" /\ Payload(lastOp'.key) # {}

C4_DuplicateRejected ==
    [][DuplicateStep =>
          /\ lastOp'.result = "DuplicateKey"
          /\ numItems_' = numItems_
          /\ root_' = root_
          /\ numNodes_' = numNodes_
          /\ disk' = disk
          /\ isOpen_' /\ mode_' = "Write"
          /\ LET r == retrieve(SelfNext, lastOp'.key)
             IN r.found /\ Payload(lastOp'.key) = {r.data}]_vars

\* A second insert, with another payload, of a key that sits in an internal
\* node below the root of a three-level tree has just raised.
C4_Witness ==
    /\ InWriteSession
    /\ lastOp.op = "insert" /\ lastOp.result = "DuplicateKey"
    /\ lastOp.data \notin Payload(lastOp.key)
    /\ LeafDepths(Self, root_, 0) = {2}
    /\ currentNode_.branches[0] # NilPtr
    /\ currentNode_ # NodeOf(Self, root_)

\* ------------------------------------------------------------------------
\* C5.  In a write session size() equals the number of inserts that have
\* succeeded since open(path, Write); inserts that raise leave it alone.
\* ------------------------------------------------------------------------
C5_SizeCounts == InWriteSession => size(Self) = nSucc

\* Three inserts succeeded and then one raised DuplicateKey.
C5_Witness ==
    /\ InWriteSession
    /\ nSucc = 3
    /\ lastOp.op = "insert" /\ lastOp.result = "DuplicateKey"

\* ------------------------------------------------------------------------
\* C6.  Whatever the order in which the same (key, payload) pairs are
\* inserted, retrieve answers the same for every key: the tree at hand
\* answers as the trees loaded in ascending and in descending key order do.
\* ------------------------------------------------------------------------

\* BTree() followed by open(path, Write).
FreshWrite ==
    open([disk |-> NoFile, file |-> [open |-> FALSE, out |-> FALSE, fail |-> FALSE],
          mode |-> "Read", isOpen |-> FALSE, root |-> NilPtr, numItems |-> 0,
          numNodes |-> 0, cur |-> Node], "Write", TRUE).o

\* o after the inserts of pairs, in sequence.
RECURSIVE Load(_, _)
Load(o, pairs) ==
    IF pairs = << >> THEN o
    ELSE Load(insert(o, Head(pairs)[1], Head(pairs)[2]).o, Tail(pairs))

\* The pairs of S in ascending order of key (then payload).
PairBefore(a, b) == Before(a[1], b[1]) \/ (a[1] = b[1] /\ a[2] < b[2])

RECURSIVE AscendingPairs(_)
AscendingPairs(S) ==
    IF S = {} THEN << >>
    ELSE LET least == CHOOSE a \in S : \A b \in S \ {a} : PairBefore(a, b)
         IN <<least>> \o AscendingPairs(S \ {least})

Reversed(seq) == [i \in 1..Len(seq) |-> seq[Len(seq) + 1 - i]]

SameAnswers(a, b) ==
    \A key \in LookupKeys :
        /\ retrieve(a, key).found = retrieve(b, key).found
        /\ retrieve(a, key).data = retrieve(b, key).data

C6_OrderInsensitive ==
    InWriteSession =>
        /\ SameAnswers(Self, Load(FreshWrite, AscendingPairs(inserted)))
        /\ SameAnswers(Self, Load(FreshWrite, Reversed(AscendingPairs(inserted))))

\* Seven pairs inserted in an order that left another file than the ascending
\* and the descending order leave.
C6_Witness ==
    /\ InWriteSession
    /\ nSucc = 7
    /\ disk # Load(FreshWrite, AscendingPairs(inserted)).disk
    /\ disk # Load(FreshWrite, Reversed(AscendingPairs(inserted))).disk

\* ------------------------------------------------------------------------
\* C7.  insert on a session that is open for reading, or not open, raises
\* NotWritable and leaves the file, size(), root and num_nodes unchanged.
\* ------------------------------------------------------------------------
C7_NotWritable ==
    [][(lastOp'.op = "insert" /\ ~InWriteSession) =>
          /\ lastOp'.result = "NotWritable"
          /\ UNCHANGED <<disk, file_, mode_, isOpen_, root_, numItems_, numNodes_>>]_vars

\* insert has just raised NotWritable in a read session on a tree with records.
C7_Witness ==
    /\ InReadSession
    /\ size(Self) >= 2
    /\ lastOp.op = "insert" /\ lastOp.result = "NotWritable"

\* ------------------------------------------------------------------------
\* C8.  A key longer than KeySize - 1 bytes is stored under its first
\* KeySize - 1 bytes; retrieve by the truncated key and retrieve by the long
\* key both find it, with the same payload.
\* ------------------------------------------------------------------------
LongKeys == {key \in InputKeys : Len(key) > KeySize - 1}

Truncated(key) == SubSeq(key, 1, KeySize - 1)

C8_Truncation ==
    isOpen_ =>
        /\ \A key \in StoredKeys(Self) : Len(key) <= KeySize - 1
        /\ \A key \in LongKeys :
               /\ retrieve(Self, key).found = retrieve(Self, Truncated(key)).found
               /\ retrieve(Self, key).data = retrieve(Self, Truncated(key)).data
        /\ (lastOp.op = "insert" /\ lastOp.result = "" /\ lastOp.key \in LongKeys) =>
               /\ Truncated(lastOp.key) \in StoredKeys(Self)
               /\ retrieve(Self, lastOp.key).found
               /\ retrieve(Self, lastOp.key).data = lastOp.data
               /\ retrieve(Self, Truncated(lastOp.key)).found

\* The insert of a long key has just succeeded as the third of the session.
C8_Witness ==
    /\ InWriteSession
    /\ lastOp.op = "insert" /\ lastOp.result = "" /\ lastOp.key \in LongKeys
    /\ nSucc = 3

\* ------------------------------------------------------------------------
\* C9.  No two records of the tree share a stored key.  Input keys that
\* agree on their first KeySize - 1 bytes are the same key: the insert of the
\* second raises DuplicateKey and the payload stored stays that of the first.
\* ------------------------------------------------------------------------
C9_UniqueKeys ==
    isOpen_ =>
        /\ \A i, j \in 1..Len(TreeRecords(Self)) :
               i # j => TreeRecords(Self)[i].key # TreeRecords(Self)[j].key
        /\ InWriteSession =>
               \A key \in InputKeys, data \in Payloads :
                   Normalized(key) \in StoredKeys(Self) =>
                       LET r == insert(Self, key, data)
                       IN /\ r.raised = "DuplicateKey"
                          /\ retrieve(r.o, key).found
                          /\ retrieve(r.o, key).data = retrieve(Self, Normalized(key)).data

\* A long key was refused, with a payload other than the one stored under
\* the KeySize - 1 bytes it shares with the stored key.
C9_Witness ==
    /\ InWriteSession
    /\ lastOp.op = "insert" /\ lastOp.result = "DuplicateKey"
    /\ lastOp.key \in LongKeys
    /\ Payload(lastOp.key) # {}
    /\ lastOp.data \notin Payload(lastOp.key)

\* ------------------------------------------------------------------------
\* C10.  The header close() writes for a write session carries its final
\* num_items, num_nodes and root: open(path, Read) afterwards reports the
\* size() and empty() the write session had just before the close.
\* ------------------------------------------------------------------------
C10_HeaderRoundTrip ==
    /\ (~isOpen_ /\ atClose.valid) =>
           /\ disk # NoFile
           /\ disk[1].branches[0] = atClose.size
           /\ disk[1].branches[1] = atClose.numNodes
           /\ disk[1].branches[2] = atClose.root
    /\ InReadSession =>
           /\ atClose.valid
           /\ size(Self) = atClose.size
           /\ empty(Self) = atClose.empty
           /\ root_ = atClose.root
           /\ numNodes_ = atClose.numNodes

\* open(path, Read) has just succeeded on the file of a session of three inserts.
C10_Witness ==
    /\ InReadSession
    /\ lastOp.op = "open"
    /\ size(Self) = 3 /\ ~empty(Self)

\* ------------------------------------------------------------------------
\* C11.  A successful open(path, Write) yields an empty tree: size() is 0,
\* empty() holds, root is -1, num_nodes is 0, the file holds the header only
\* and no key is retrievable, whatever the file held and whatever session the
\* object held before the call.
\* ------------------------------------------------------------------------
C11_WriteOpensEmpty ==
    (lastOp.op = "open" /\ lastOp.result = "Write") =>
        /\ isOpen(Self) /\ mode_ = "Write"
        /\ size(Self) = 0 /\ empty(Self)
        /\ root_ = NilPtr /\ numNodes_ = 0
        /\ disk = <<metaNode(0, 0, NilPtr)>>
        /\ \A key \in LookupKeys : ~retrieve(Self, key).found

\* open(path, Write) has just succeeded on an object whose working buffer
\* still holds a node of the tree of its earlier session.
C11_Witness ==
    /\ lastOp.op = "open" /\ lastOp.result = "Write"
    /\ InWriteSession
    /\ currentNode_.count >= 2

\* ------------------------------------------------------------------------
\* C12.  close() is idempotent: on a session that is not open it changes
\* neither the object nor the file; on an open one it leaves isOpen() false,
\* a write session's close writes the header once (slot 0, nothing else) and
\* a close after it writes nothing.
\* ------------------------------------------------------------------------
C12_CloseIdempotent ==
    /\ ~isOpen(close(Self))
    /\ close(close(Self)) = close(Self)
    /\ ~isOpen_ => close(Self) = Self
    /\ InWriteSession =>
           close(Self).disk = [disk EXCEPT ![1] = metaNode(numItems_, numNodes_, root_)]
    /\ InReadSession => close(Self).disk = disk

\* close() has just returned on a write session of at least two records,
\* whose mode_ is still Write.
C12_Witness ==
    /\ lastOp.op = "close"
    /\ ~isOpen_ /\ mode_ = "Write"
    /\ atClose.valid /\ atClose.size >= 2

\* ------------------------------------------------------------------------
\* C13.  A failed open returns false without side effects: isOpen(), the
\* mode, size() and empty() of the object, and so the session it held, are
\* as they were before the call.
\* ------------------------------------------------------------------------
C13_FailedOpenNoEffect ==
    [][(lastOp'.op = "open" /\ lastOp'.result = "failed") =>
          /\ isOpen(SelfNext) = isOpen(Self)
          /\ mode_' = mode_
          /\ size(SelfNext) = size(Self)
          /\ empty(SelfNext) = empty(Self)]_vars

\* ------------------------------------------------------------------------
\* C14.  retrieve and contains are pure reads in Read and in Write sessions:
\* they change no block of the file (nodes and header), nor size(), empty(),
\* root, num_nodes or isOpen().
\* ------------------------------------------------------------------------
SameTree(o) ==
    /\ o.disk = disk
    /\ size(o) = size(Self) /\ empty(o) = empty(Self)
    /\ o.root = root_ /\ o.numNodes = numNodes_
    /\ isOpen(o) = isOpen(Self) /\ o.mode = mode_

C14_PureReads ==
    \A key \in LookupKeys :
        /\ SameTree(retrieve(Self, key).o)
        /\ SameTree(contains(Self, key).o)
        /\ contains(Self, key).found = retrieve(Self, key).found

\* A lookup has just hit in a write session of three records and left the
\* node it found the key in in the working buffer.
C14_Witness ==
    /\ InWriteSession
    /\ lastOp.op = "retrieve" /\ lastOp.result = "found"
    /\ nSucc = 3
    /\ currentNode_.count >= 1

\* ------------------------------------------------------------------------
\* C15.  After every successful insert every node of the tree is a leaf whose
\* branches 0..count are all -1 or an internal node whose branches 0..count
\* are all node identifiers (1..num_nodes, none -1); no node mixes the two.
\* ------------------------------------------------------------------------
AllNil(node) == \A i \in 0..node.count : node.branches[i] = NilPtr

AllNodes(node, last) == \A i \in 0..node.count : node.branches[i] \in 1..last

C15_LeafOrInternal ==
    isOpen_ =>
        \A n \in TreeNodes(Self) :
            AllNil(NodeOf(Self, n)) \/ AllNodes(NodeOf(Self, n), numNodes_)

\* The seventh insert has just returned on a three-level tree of Order 3.
C15_Witness ==
    /\ InWriteSession
    /\ lastOp.op = "insert" /\ lastOp.result = ""
    /\ nSucc = 7 /\ MaxKeys = 2
    /\ \E n \in TreeNodes(Self) \ {root_} : ~AllNil(NodeOf(Self, n))

\* ------------------------------------------------------------------------
\* C16.  For every (KeySize, DataSize, NodeSize), order() equals
\* max(3, floor((NodeSize - 4 + (KeySize + DataSize) + 8) /
\* ((KeySize + DataSize) + 8))) and is at least 3, maxKeys() = order() - 1 is
\* at least 2 and minKeys() = (order() - 1) / 2 is at least 1.
\* ------------------------------------------------------------------------
Max(a, b) == IF a > b THEN a ELSE b

C16_OrderFormula ==
    config.instantiated =>
        /\ config.order =
               Max(3, (config.NodeSize - 4 + (config.KeySize + config.DataSize) + 8)
                      \div ((config.KeySize + config.DataSize) + 8))
        /\ config.order >= 3
        /\ config.maxKeys = config.order - 1 /\ config.maxKeys >= 2
        /\ config.minKeys = (config.order - 1) \div 2 /\ config.minKeys >= 1

\* An instantiation with a node size below sizeof(int), whose Order is the
\* minimum, has been asked for its geometry.
C16_Witness ==
    /\ config.instantiated
    /\ config.NodeSize < SizeofInt
    /\ config.order = 3

\* ------------------------------------------------------------------------
\* C17.  Every node slot on file is exactly the configured NodeSize bytes
\* long: the serialized node (4-byte count, MaxKeys records of KeySize +
\* DataSize bytes, Order branches of 8 bytes) has the configured NodeSize for
\* every (KeySize, DataSize, NodeSize), also where Order is clamped to 3, and
\* nodeSize() reports the configured size.
\* ------------------------------------------------------------------------
C17_SlotIsNodeSize ==
    config.instantiated =>
        /\ 4 + config.maxKeys * (config.KeySize + config.DataSize) + config.order * 8
               = config.NodeSize
        /\ config.nodeSize = config.NodeSize

\* ------------------------------------------------------------------------
\* C18.  In a write session num_nodes never decreases; the nodes a step adds
\* to the tree are numbered num_nodes + 1 onwards, from 1, and written to
\* those slots; no node is numbered 0 and a node of the tree stays at its
\* number; so nodes 1..num_nodes are exactly the nodes of the tree, and the
\* file, also after the close, consists of slots 0..num_nodes.
\* ------------------------------------------------------------------------
WritingNext == isOpen_' /\ mode_' = "Write"

C18_NodeNumbers ==
    [][/\ (InWriteSession /\ WritingNext) =>
              /\ numNodes_' >= numNodes_
              /\ TreeNodes(Self) \subseteq TreeNodes(SelfNext)
              /\ TreeNodes(SelfNext) \ TreeNodes(Self) = (numNodes_ + 1)..numNodes_'
       /\ WritingNext =>
              /\ root_' # 0
              /\ TreeNodes(SelfNext) = 1..numNodes_'
              /\ Len(disk') = numNodes_' + 1
       /\ (lastOp'.op = "close" /\ atClose'.valid) =>
              /\ Len(disk') = atClose'.numNodes + 1
              /\ disk'[1].branches[1] = atClose'.numNodes]_vars

\* A write session on a file of the header and seven nodes, all in the tree.
C18_Witness ==
    /\ InWriteSession
    /\ lastOp.op = "insert" /\ lastOp.result = ""
    /\ numNodes_ = 7
    /\ Len(disk) = 8

\* The second object and the file it is attached to after the step.
ThatSelfNext ==
    [disk |-> IF that'.on = "moved" THEN disk' ELSE thatDisk', file |-> that'.file,
     mode |-> that'.mode, isOpen |-> that'.isOpen, root |-> that'.root,
     numItems |-> that'.numItems, numNodes |-> that'.numNodes, cur |-> that'.cur]

\* ------------------------------------------------------------------------
\* C19.  Moving an open session of the first object into the second, by move
\* construction or move assignment, transfers the session: afterwards the
\* second is open with the mode, size(), root and num_nodes the first had and
\* finds the keys of the first, the first is not open, and a later close or
\* destruction of the first rewrites no block of the file and does not close
\* the file of the second; whatever the second held before, uninitialised
\* members included.
\* ------------------------------------------------------------------------
C19_MoveTransfers ==
    [][/\ lastOp'.op = "move" =>
              /\ isOpen(ThatSelfNext) /\ that'.file.open
              /\ that'.mode = mode_
              /\ size(ThatSelfNext) = size(Self)
              /\ that'.root = root_ /\ that'.numNodes = numNodes_
              /\ ~isOpen(SelfNext)
              /\ disk' = disk
              /\ \A key \in LookupKeys :
                     /\ retrieve(ThatSelfNext, key).found <=> Payload(key) # {}
                     /\ retrieve(ThatSelfNext, key).found =>
                            Payload(key) = {retrieve(ThatSelfNext, key).data}
       /\ (~NotMoved /\ lastOp'.op = "close") =>
              /\ disk' = disk
              /\ that' = that
              /\ ~isOpen(SelfNext)]_vars

\* The first object was closed after its write session of three records had
\* been moved into the second, which had a file of its own before and is
\* still open.
C19_Witness ==
    /\ ~NotMoved
    /\ lastOp.op = "close"
    /\ that.isOpen /\ that.file.open /\ that.mode = "Write"
    /\ size(ThatSelf) = 3
    /\ thatDisk # NoFile

\* ------------------------------------------------------------------------
\* C20.  retrieve always terminates and never raises: when a read of a node
\* fails during the descent (a branch or the root refers to a slot past the
\* end of the file) it returns not found, neither looping nor returning a
\* payload out of the stale working buffer.
\* ------------------------------------------------------------------------
C20_RetrieveReturns ==
    lastOp.op = "retrieve" =>
        /\ lastOp.result # "diverged"
        /\ file_.fail => lastOp.result = "notfound"

\* ------------------------------------------------------------------------
\* C21.  When a read or a write of a node fails during an insert of a write
\* session, the caller gets to know: the insert does not return as a success
\* that has counted the record in size().
\* ------------------------------------------------------------------------
C21_FailureSurfaces ==
    [][(InWriteSession /\ lastOp'.op = "insert" /\ file_'.fail) =>
          ~(lastOp'.result = "" /\ size(SelfNext) = size(Self) + 1)]_vars

\* The ids of the records the index file was built from are pairwise distinct.
DistinctIds == \A i, j \in 1..Len(indexLog.built) :
                   i # j => indexLog.built[i][1] # indexLog.built[j][1]

\* They are pairwise distinct in the MAX_PRODUCT_ID_LEN - 1 bytes a record keeps.
DistinctStoredIds ==
    \A i, j \in 1..Len(indexLog.built) :
        i # j => strncpy_s(indexLog.built[i][1]) # strncpy_s(indexLog.built[j][1])

\* The node keys added with an id that agrees with id on the bytes a record keeps.
NodeKeysOf(id) ==
    {indexLog.built[i][2] :
        i \in {k \in 1..Len(indexLog.built) :
                  strncpy_s(indexLog.built[k][1]) = strncpy_s(id)}}

\* ------------------------------------------------------------------------
\* C22 as stated.  After addRecord of records with pairwise distinct ids and
\* a successful buildIndex, on the building instance and on one that opened
\* the file: lookup(id) finds every added id with the node key added for it
\* and no other id, and getRecordCount() is the number of records added.
\* ------------------------------------------------------------------------
C22_LookupFindsAdded ==
    (index.isOpen /\ DistinctIds) =>
        /\ getRecordCount(IndexSelf) = Len(indexLog.built)
        /\ \A id \in IndexIds :
               /\ lookup(IndexSelf, id).ret <=>
                      \E i \in 1..Len(indexLog.built) : indexLog.built[i][1] = id
               /\ lookup(IndexSelf, id).ret =>
                      \E i \in 1..Len(indexLog.built) :
                          indexLog.built[i] = <<id, lookup(IndexSelf, id).nodeKey>>

\* ------------------------------------------------------------------------
\* C22 as amended.  The same for records whose ids are pairwise distinct in
\* their first MAX_PRODUCT_ID_LEN - 1 bytes: lookup(id) finds exactly the ids
\* that agree with an added id on those bytes, with the node key added for it.
\* ------------------------------------------------------------------------
C22_LookupFindsStored ==
    (index.isOpen /\ DistinctStoredIds) =>
        /\ getRecordCount(IndexSelf) = Len(indexLog.built)
        /\ \A id \in IndexIds :
               /\ lookup(IndexSelf, id).ret <=> NodeKeysOf(id) # {}
               /\ lookup(IndexSelf, id).ret =>
                      NodeKeysOf(id) = {lookup(IndexSelf, id).nodeKey}

\* A lookup by an id longer than the id field has just hit in a file of three
\* records that were added in descending order of id.
C22_Witness ==
    /\ index.isOpen /\ DistinctStoredIds
    /\ Len(indexLog.built) = 3
    /\ \A i \in 1..2 : strcmp(indexLog.built[i][1], indexLog.built[i + 1][1]) > 0
    /\ indexLog.op = "lookup" /\ indexLog.ret
    /\ Len(indexLog.id) = MAX_PRODUCT_ID_LEN

\* ------------------------------------------------------------------------
\* C23.  buildIndex sorts stably: records added with equal ids are in the
\* file in the order in which they were added.
\* ------------------------------------------------------------------------
C23_StableSort ==
    indexFile # NoFile =>
        \A p, q \in 0..(indexFile[1].count - 1) :
            (p < q /\ indexFile[p + 2].productId = indexFile[q + 2].productId) =>
                \E i, j \in 1..Len(indexLog.built) :
                    /\ i < j
                    /\ ProductRecord(indexLog.built[i][1], indexLog.built[i][2])
                           = indexFile[p + 2]
                    /\ ProductRecord(indexLog.built[j][1], indexLog.built[j][2])
                           = indexFile[q + 2]

\* ------------------------------------------------------------------------
\* searchNode and split on their own: the state is a write session whose
\* working buffer holds a node with strictly ascending records, which is
\* also node 1 of the file; the node is a leaf, or an internal node whose
\* children are the nodes 2.. (blocks that neither function reads).  This is
\* the state of pushDown at BTree.h 485 and 499: the node has been read, and
\* a full node is about to take the record moved up from below.
\* ------------------------------------------------------------------------

\* Orders 3 to 7.
HelperNodeSizes == {28, 40, 52, 64, 76}

\* The node with the records of keys in ascending order, a leaf or an
\* internal node with the children 2, 3, ...
AscendingNode(keys, internal) ==
    LET Filled(pairs) ==
            [count |-> Len(pairs),
             records |-> [i \in 0..(MaxKeys - 1) |->
                             IF i < Len(pairs)
                             THEN [key |-> pairs[i + 1][1], data |-> pairs[i + 1][2]]
                             ELSE Record],
             branches |-> [i \in 0..(Order - 1) |->
                              IF internal /\ i <= Len(pairs) THEN i + 2 ELSE NilPtr]]
    IN Filled(AscendingPairs({<<key, BulkData(key)>> : key \in keys}))

\* The file of a write session whose node 1 is node: the header, the node and
\* the blocks of its children and of the node that was split off below.
HelperFile(node, last) ==
    <<metaNode(0, 0, NilPtr), node>> \o [i \in 1..(last - 1) |-> Node]

HelperInit ==
    /\ NodeSize \in HelperNodeSizes
    /\ \E keys \in SUBSET BulkKeys, internal \in BOOLEAN :
           /\ Cardinality(keys) <= MaxKeys
           /\ internal => keys # {}
           /\ currentNode_ = AscendingNode(keys, internal)
           /\ numNodes_ = (IF internal THEN Cardinality(keys) + 3 ELSE 1)
    /\ disk = HelperFile(currentNode_, numNodes_)
    /\ file_ = [open |-> TRUE, out |-> TRUE, fail |-> FALSE]
    /\ mode_ = "Write"
    /\ isOpen_ = TRUE
    /\ root_ = 1
    /\ numItems_ = currentNode_.count
    /\ lastOp = NoOp
    /\ inserted = {}
    /\ nSucc = 0
    /\ atClose = NeverClosed
    /\ that = NotMade
    /\ thatDisk = NoFile
    /\ config = NoConfig
    /\ index = NewIndex
    /\ indexFile = NoFile
    /\ indexLog = NoLog

\* searchNode(target, location) on the working buffer.
SearchNode(target) ==
    /\ \E s \in {searchNode(currentNode_, target)} :
           lastOp' = [op |-> "searchNode", key |-> target, data |-> 0,
                      result |-> IF s.found THEN "found" ELSE "notfound",
                      location |-> s.location]
    /\ UNCHANGED <<NodeSize, disk, file_, mode_, isOpen_, root_, numItems_, numNodes_,
                   currentNode_, inserted, nSucc, atClose, aside>>

\* The call of split in pushDown (BTree.h 500): node 1 is full, the key was
\* not found in it, location is where searchNode stopped and the record comes
\* with the right branch Nil (a leaf) or the node split off below.
Split(key) ==
    /\ lastOp.op # "split"
    /\ NodeOf(Self, 1).count = MaxKeys
    /\ ~searchNode(NodeOf(Self, 1), key).found
    /\ \E location \in {searchNode(NodeOf(Self, 1), key).location},
          currentRight \in {IF IsLeaf(Self, 1) THEN NilPtr ELSE numNodes_} :
           \E r \in {split(Pager(Self), [key |-> key, data |-> BulkData(key)],
                            currentRight, 1, location)} :
               /\ Becomes(WithPager(Self, r.m))
               /\ lastOp' = [op |-> "split", key |-> key, data |-> BulkData(key),
                              result |-> "", location |-> location,
                              currentRight |-> currentRight,
                              newRecord |-> r.newRecord, newRight |-> r.newRight]
    /\ UNCHANGED <<NodeSize, inserted, nSucc, atClose, aside>>

HelperNext ==
    \/ \E target \in BulkKeys : SearchNode(target)
    \/ \E key \in BulkKeys : Split(key)

HelperSpec == HelperInit /\ [][HelperNext]_vars

\* The keys of the first count records of node, in their order.
KeysOf(node) == [i \in 1..node.count |-> node.records[i - 1].key]

\* ------------------------------------------------------------------------
\* C24.  searchNode on a node with c strictly ascending records returns found
\* with location i exactly when the target is the key of record i; otherwise
\* not found with location the greatest index whose key is below the target,
\* -1 when c = 0 or the target is below record 0: the target lies strictly
\* between record location and record location + 1, under branch location + 1.
\* ------------------------------------------------------------------------
C24_SearchNode ==
    lastOp.op = "searchNode" =>
        LET c == currentNode_.count
            Key(i) == currentNode_.records[i].key
            Below == {i \in 0..(c - 1) : Before(Key(i), lastOp.key)}
        IN /\ (lastOp.result = "found") <=> (\E i \in 0..(c - 1) : Key(i) = lastOp.key)
           /\ lastOp.result = "found" =>
                  /\ lastOp.location \in 0..(c - 1)
                  /\ Key(lastOp.location) = lastOp.key
           /\ lastOp.result = "notfound" =>
                  /\ lastOp.location \in (-1)..(c - 1)
                  /\ lastOp.location = -1 <=> Below = {}
                  /\ lastOp.location # -1 =>
                         /\ lastOp.location \in Below
                         /\ \A i \in Below : i <= lastOp.location
                  /\ lastOp.location + 1 < c =>
                         Before(lastOp.key, Key(lastOp.location + 1))

\* A key that lies between two records of a node of six was searched for.
C24_Witness ==
    /\ lastOp.op = "searchNode" /\ lastOp.result = "notfound"
    /\ currentNode_.count = 6
    /\ lastOp.location = 2

\* The halves of a split: the node at currentRoot and the node at newRight.
LeftNode == NodeOf(Self, 1)

RightNode == NodeOf(Self, lastOp.newRight)

SplitDone == lastOp.op = "split"

\* ------------------------------------------------------------------------
\* C25.  Splitting a full node with a record coming in at any gap, for odd
\* and even Order: the left node then holds MinKeys records and the new right
\* node MaxKeys - MinKeys, both at least MinKeys and at most MaxKeys,
\* whether the record went left, right or up.
\* ------------------------------------------------------------------------
C25_SplitHalves ==
    SplitDone =>
        /\ LeftNode.count = MinKeys
        /\ RightNode.count = MaxKeys - MinKeys
        /\ MinKeys <= LeftNode.count /\ LeftNode.count <= MaxKeys
        /\ MinKeys <= RightNode.count /\ RightNode.count <= MaxKeys

\* A node of even Order was split by a record that went up itself.
C25_Witness ==
    /\ SplitDone
    /\ Order = 6
    /\ lastOp.newRecord.key = lastOp.key

\* The first count records of node and its count + 1 branches, in order.
RecordsOf(node) == [i \in 1..node.count |-> node.records[i - 1]]

BranchesOf(node) == [i \in 1..(node.count + 1) |-> node.branches[i - 1]]

\* seq with x put in after its first pos elements.
InsertAt(seq, pos, x) == SubSeq(seq, 1, pos) \o <<x>> \o SubSeq(seq, pos + 1, Len(seq))

\* ------------------------------------------------------------------------
\* C26.  A split loses and duplicates nothing: the records of the left node,
\* the promoted record and the records of the right node are, in this order,
\* the old records with the incoming one at its gap; every left key is below
\* the promoted key and every right key above it; the branches of left and
\* right are, in this order, the old branches with the incoming right branch
\* after the incoming record, so that branch 0 of the right node is the child
\* that followed the promoted record.
\* ------------------------------------------------------------------------
C26_SplitKeepsAll ==
    [][(lastOp'.op = "split" /\ lastOp.op # "split") =>
          LET old == NodeOf(Self, 1)
              left == NodeOf(SelfNext, 1)
              right == NodeOf(SelfNext, lastOp'.newRight)
              incoming == [key |-> lastOp'.key, data |-> lastOp'.data]
              records == InsertAt(RecordsOf(old), lastOp'.location + 1, incoming)
              branches == InsertAt(BranchesOf(old), lastOp'.location + 2,
                                   lastOp'.currentRight)
          IN /\ RecordsOf(left) \o <<lastOp'.newRecord>> \o RecordsOf(right) = records
             /\ \A i \in 1..left.count : Before(KeysOf(left)[i], lastOp'.newRecord.key)
             /\ \A i \in 1..right.count : Before(lastOp'.newRecord.key, KeysOf(right)[i])
             /\ BranchesOf(left) \o BranchesOf(right) = branches
             /\ right.branches[0] = branches[left.count + 2]
             /\ lastOp'.newRight = numNodes_'
             /\ numNodes_' = numNodes_ + 1
      ]_vars

\* An internal node of even Order was split and the record that came in,
\* with its branch, went to the right node, though not as its first record.
C26_Witness ==
    /\ SplitDone
    /\ Order = 4
    /\ lastOp.currentRight # NilPtr
    /\ \E i \in 1..RightNode.count :
           /\ RightNode.records[i].key = lastOp.key
           /\ RightNode.branches[i + 1] = lastOp.currentRight

\* The root of Self was full and the insert split it: it now holds MinKeys.
RootSplit ==
    /\ root_ # NilPtr
    /\ NodeOf(Self, root_).count = MaxKeys
    /\ NodeOf(SelfNext, root_).count = MinKeys
    /\ numNodes_' > numNodes_

\* ------------------------------------------------------------------------
\* C27.  An insert changes the root exactly when the insertion goes past
\* the old root (the tree was empty, or the root was split).  The new root
\* then has the highest identifier allocated, one record (the one promoted:
\* the inserted record in an empty tree, else a record between the halves of
\* the old root), branch 0 the old root (-1 for the first insert) and
\* branch 1 the right node promoted with it (the node allocated just before
\* the root, -1 for the first insert).
\* ------------------------------------------------------------------------
C27_RootChange ==
    [][(InWriteSession /\ lastOp'.op = "insert") =>
          LET grown == NodeOf(SelfNext, root_')
              right == grown.branches[1]
          IN /\ root_' # root_ <=> (lastOp'.result = "" /\ (root_ = NilPtr \/ RootSplit))
             /\ root_' # root_ =>
                    /\ root_' = numNodes_'
                    /\ grown.count = 1
                    /\ grown.branches[0] = root_
                    /\ IF root_ = NilPtr
                       THEN /\ right = NilPtr
                            /\ grown.records[0] = [key |-> lastOp'.key, data |-> lastOp'.data]
                            /\ numNodes_' = numNodes_ + 1
                       ELSE /\ right = root_' - 1
                            /\ right > numNodes_
                            /\ NodeOf(SelfNext, right).count = MaxKeys - MinKeys
                            /\ \A i \in 0..(MinKeys - 1) :
                                   Before(NodeOf(SelfNext, root_).records[i].key,
                                          grown.records[0].key)
                            /\ \A i \in 0..(MaxKeys - MinKeys - 1) :
                                   Before(grown.records[0].key,
                                          NodeOf(SelfNext, right).records[i].key)
      ]_vars

\* An internal root was split: the root is the third level of the tree.
C27_Witness ==
    /\ InWriteSession /\ lastOp.op = "insert" /\ lastOp.result = ""
    /\ root_ = numNodes_
    /\ NodeOf(Self, root_).branches[0] # NilPtr
    /\ ~IsLeaf(Self, NodeOf(Self, root_).branches[0])

\* The nodes pushDown visits for key in the tree of o: from the root along
\* the branch after the last record below key, down to a leaf or to the node
\* that holds key.
RECURSIVE PathFrom(_, _, _)
PathFrom(o, n, key) ==
    IF n = NilPtr THEN {}
    ELSE LET Below == {i \in 0..(NodeOf(o, n).count - 1) :
                          Before(NodeOf(o, n).records[i].key, key)}
             Holds == \E i \in 0..(NodeOf(o, n).count - 1) :
                          NodeOf(o, n).records[i].key = key
         IN IF Holds THEN {n}
            ELSE {n} \cup PathFrom(o, NodeOf(o, n).branches[Cardinality(Below)], key)

SearchPath(o, key) == PathFrom(o, o.root, key)

\* The nodes of the file before the step whose block differs after it.
Rewritten == {n \in 1..numNodes_ : disk'[n + 1] # disk[n + 1]}

\* ------------------------------------------------------------------------
\* C28.  An insert rewrites only nodes on the search path of its key and
\* writes the nodes it allocates; the header block is never touched.  When
\* the leaf at the end of the path has fewer than MaxKeys records, exactly
\* that leaf is rewritten (it gains the record): root, num_nodes and every
\* other node are as before.
\* ------------------------------------------------------------------------
C28_InsertFrame ==
    [][(InWriteSession /\ lastOp'.op = "insert") =>
          /\ Rewritten \subseteq SearchPath(Self, lastOp'.key)
          /\ disk'[1] = disk[1]
          /\ Len(disk') = numNodes_' + 1
          /\ \A leaf \in SearchPath(Self, lastOp'.key) :
                 (/\ lastOp'.result = ""
                  /\ IsLeaf(Self, leaf)
                  /\ NodeOf(Self, leaf).count < MaxKeys)
                 => /\ Rewritten = {leaf}
                    /\ root_' = root_
                    /\ numNodes_' = numNodes_
                    /\ NodeOf(SelfNext, leaf).count = NodeOf(Self, leaf).count + 1
      ]_vars

\* A record has gone into a leaf with room below the root of a tree of
\* Order 3: the leaf now holds MaxKeys records, so it was not split.
C28_Witness ==
    /\ InWriteSession /\ lastOp.op = "insert" /\ lastOp.result = ""
    /\ Order = 3
    /\ Cardinality(SearchPath(Self, lastOp.key)) = 2
    /\ \E leaf \in SearchPath(Self, lastOp.key) :
           /\ leaf # root_
           /\ IsLeaf(Self, leaf)
           /\ NodeOf(Self, leaf).count = MaxKeys

\* pushDown with a node buffer of its own in every frame: the node is read
\* once, on entry, and that copy is searched, takes the record moved up or
\* is handed to split (the file is taken with the copy at currentRoot, which
\* is what split then reads).  Nothing is read again after the recursive call.
RECURSIVE pushDownPrivate(_, _, _)
pushDownPrivate(m, currentRecord, currentRoot) ==
    IF currentRoot = NilPtr
    THEN [m |-> m, moveUp |-> TRUE, newRecord |-> currentRecord, newRight |-> NilPtr,
          thrown |-> FALSE, overflow |-> FALSE]
    ELSE LET Place(node, r, location) ==
                 IF node.count < MaxKeys
                 THEN [r EXCEPT !.m = writeNode(r.m, currentRoot,
                                                addRecord(r.newRecord, r.newRight, node,
                                                          location + 1)),
                                !.moveUp = FALSE]
                 ELSE split([r.m EXCEPT !.disk = PutBlock(@, currentRoot, node)],
                            r.newRecord, r.newRight, currentRoot, location)
             Back(node, r, location) ==
                 IF r.thrown \/ ~r.moveUp THEN r
                 ELSE Place(node, r, location)
             Down(node, s) ==
                 IF s.found
                 THEN [m |-> m, moveUp |-> FALSE, newRecord |-> Record,
                       newRight |-> NilPtr, thrown |-> TRUE, overflow |-> FALSE]
                 ELSE Back(node,
                           pushDownPrivate(m, currentRecord, node.branches[s.location + 1]),
                           s.location)
             Visit(node) == Down(node, searchNode(node, currentRecord.key))
         IN Visit(m.disk[currentRoot + 1])

\* insert(key, data) of a write session with a buffer per frame.
insertPrivate(o, key, data) ==
    returned(o, pushDownPrivate(Pager(o), [key |-> strncpy(key), data |-> data], o.root))

\* ------------------------------------------------------------------------
\* C29.  The one shared working buffer gives what a buffer per recursion
\* frame gives: from every state of a write session, an insert leaves the
\* same blocks on the file, the same root, num_nodes and num_items, and the
\* same outcome, as the insert that reads each node once into a buffer of
\* its frame and never reads it again; so every sequence of inserts does.
\* ------------------------------------------------------------------------
C29_SharedBuffer ==
    [][(InWriteSession /\ lastOp'.op = "insert") =>
          \E ref \in {insertPrivate(Self, lastOp'.key, lastOp'.data)} :
              /\ ref.o.disk = disk'
              /\ ref.o.root = root_'
              /\ ref.o.numNodes = numNodes_'
              /\ ref.o.numItems = numItems_'
              /\ ref.raised = lastOp'.result
      ]_vars

\* The inserted record was moved up from a split leaf and placed into the
\* root, which had room: the buffer held the leaf when the call returned.
C29_Witness ==
    /\ InWriteSession /\ lastOp.op = "insert" /\ lastOp.result = ""
    /\ root_ # NilPtr
    /\ root_ < numNodes_
    /\ ~IsLeaf(Self, root_)
    /\ \E i \in 0..(NodeOf(Self, root_).count - 1) :
           NodeOf(Self, root_).records[i].key = lastOp.key

\* ------------------------------------------------------------------------
\* The two objects through all their operations: the steps of MoveSpec, and
\* with them the inserts on the first object that raise (closed, reading,
\* moved from: NotWritable; a key already there: DuplicateKey) and
\* insert on the second object after it has taken over the session.
\* ------------------------------------------------------------------------

\* first.insert(key, data) that raises, whatever the state of first.
RaisingInsert(key) ==
    /\ \E r \in {insert(Self, key, BulkData(key))} :
           /\ r.raised # ""
           /\ Becomes(r.o)
           /\ lastOp' = [op |-> "insert", key |-> << >>, data |-> 0, result |-> r.raised]
    /\ UNCHANGED <<NodeSize, history, aside>>

\* The second object puts at most this many records into a tree it took over.
MaxMovedInserts == 1

\* that.insert(key, data) after the move (numItems_ of the first object is
\* still what it was at the move).
ThatInsertMoved(key) ==
    /\ ~NotMoved
    /\ \E r \in {insert(ThatSelf, key, BulkData(key))} :
           /\ r.raised = "" => that.numItems < numItems_ + MaxMovedInserts
           /\ ThatBecomes(r.o)
           /\ lastOp' = [op |-> "that.insert", key |-> << >>, data |-> 0,
                         result |-> r.raised]
    /\ UNCHANGED <<first, history, apart>>

LifeNext ==
    \/ MoveNext
    \/ \E key \in MoveKeys : RaisingInsert(key)
    \/ \E key \in MoveKeys : ThatInsertMoved(key)

LifeSpec == MoveInit /\ [][LifeNext]_vars

\* ------------------------------------------------------------------------
\* C30.  In every state reached through open, insert (returning or raising),
\* retrieve, close and move, of either object, empty() is true exactly when
\* size() is 0: root_ = NilPtr if and only if numItems_ = 0.
\* ------------------------------------------------------------------------
C30_EmptyIffSizeZero ==
    /\ empty(Self) <=> size(Self) = 0
    /\ empty(ThatSelf) <=> size(ThatSelf) = 0

\* The first object was moved from with two records in its tree and has since
\* refused an insert; the second object has put a third record into the tree.
C30_Witness ==
    /\ ~NotMoved
    /\ ~isOpen_ /\ ~empty(Self) /\ size(Self) = 2
    /\ that.isOpen /\ size(ThatSelf) = 3
    /\ lastOp.op = "insert" /\ lastOp.result = "NotWritable"

\* The branches in use in the nodes 1..numNodes of o: <<p, i>> stands for
\* branch i of node p, i within 0..count of p, other than NilPtr.
BranchesInUse(o) ==
    {b \in (1..o.numNodes) \X (0..MaxKeys) :
        /\ b[2] <= NodeOf(o, b[1]).count
        /\ NodeOf(o, b[1]).branches[b[2]] # NilPtr}

TargetOf(o, b) == NodeOf(o, b[1]).branches[b[2]]

\* The nodes within k branches of the nodes of S.
RECURSIVE Within(_, _, _)
Within(o, S, k) ==
    IF k = 0 THEN S
    ELSE Within(o, S \cup {TargetOf(o, b) : b \in {c \in BranchesInUse(o) : c[1] \in S}},
                k - 1)

\* ------------------------------------------------------------------------
\* C31.  In a session, after any sequence of inserts, the nodes are a tree
\* over exactly the identifiers allocated: the root and every branch in use
\* refer to a node in 1..num_nodes (never to slot 0, never beyond), the root
\* is referred to by no branch and every other node by exactly one, and
\* every node 1..num_nodes is reached from the root; so each node lies on
\* exactly one path from the root, none is orphaned, shared or on a cycle.
\* ------------------------------------------------------------------------
C31_ProperTree ==
    isOpen_ =>
        /\ root_ = NilPtr <=> numNodes_ = 0
        /\ root_ # NilPtr => root_ \in 1..numNodes_
        /\ Len(disk) = numNodes_ + 1
        /\ \A b \in BranchesInUse(Self) : TargetOf(Self, b) \in 1..numNodes_
        /\ \A n \in 1..numNodes_ :
               Cardinality({b \in BranchesInUse(Self) : TargetOf(Self, b) = n})
                   = IF n = root_ THEN 0 ELSE 1
        /\ root_ # NilPtr => Within(Self, {root_}, numNodes_) = 1..numNodes_

\* A tree of three levels and seven nodes of Order 3, in a write session.
C31_Witness ==
    /\ InWriteSession
    /\ Order = 3
    /\ numNodes_ = 7
    /\ Cardinality(BranchesInUse(Self)) = 6
    /\ Within(Self, {root_}, 1) # 1..numNodes_

\* retrieve(key) on the object after the step returns found with data.
RetrievesNext(key, data) ==
    \E r \in {retrieve(SelfNext, key)} : r.found /\ ~r.diverged /\ r.data = data

\* ------------------------------------------------------------------------
\* C32.  In a write session that has not been closed, retrieve sees the
\* inserts of the session: right after insert(k, p) has returned normally
\* retrieve(k) returns p, and after every step of the session (inserts with
\* their splits, refused inserts, retrieves) every key inserted so far is
\* found with the payload it was inserted with.
\* ------------------------------------------------------------------------
C32_SeesOwnInserts ==
    [][WritingNext =>
          /\ (InWriteSession /\ lastOp'.op = "insert" /\ lastOp'.result = "") =>
                 RetrievesNext(lastOp'.key, lastOp'.data)
          /\ \A e \in inserted' : RetrievesNext(e[1], e[2])
      ]_vars

\* A retrieve in a write session has found a key after the root was split
\* and four records were inserted.
C32_Witness ==
    /\ InWriteSession
    /\ lastOp.op = "retrieve" /\ lastOp.result = "found"
    /\ nSucc = MaxInserts
    /\ numNodes_ >= 3
    /\ Cardinality(inserted) = MaxInserts

====
